---- MODULE Spec2Model ----
(***************************************************************************)
(* Model of the guest execution pool of booster (src/booster/src/pool.rs)  *)
(* and of the callers that drive it (src/booster/src/main.rs).             *)
(*                                                                         *)
(* A run() task is modelled at the granularity of its shared-memory        *)
(* accesses: permit acquisition, the atomic load of the generation, the    *)
(* critical section on the free list, the read of the module pointer, and  *)
(* the Lease drop followed by the release of the permit.  update_module()  *)
(* is three separately visible steps: the write of the module pointer, the *)
(* fetch_add on the generation and the clear of the free list.  The        *)
(* runtime is multi-threaded, so every interleaving of these steps is a    *)
(* behaviour of the program.                                               *)
(*                                                                         *)
(* Spec: NumTasks callers that each make one call, NumUpdaters callers of  *)
(* update_module.  LiveSpec: the same callers with the single reload task  *)
(* of main.rs, under fair scheduling.  RecycleSpec: one client that calls  *)
(* run() again and again, so that a store is reused up to its limit.       *)
(* LoadSpec: load_best_module on every watch target of a few entries.      *)
(* ReloadSpec: the watcher thread, the filesystem and the reload task of   *)
(* start_wasm_watcher, with one request handler.  ReloadLiveSpec: the      *)
(* reload loop alone, with a fair reload task.  StaleSpec: requests that   *)
(* overlap one reload, then requests in sequence.  HostSpec: one call of a *)
(* host function of postgres.rs or redis.rs, with any arguments, against   *)
(* any guest memory and any answer of the adapter.  KvSpec: a guest that   *)
(* sets, gets and deletes a key of the KV backend.  QuerySpec: a guest     *)
(* that inserts rows and reads them back as JSON text.  IoSpec: requests   *)
(* served one after the other on a reused store, with their I/O contexts.  *)
(***************************************************************************)
EXTENDS Integers, Sequences, FiniteSets, TLC

\* ------------------------------------------------------------------ bounds
NumTasks == 2        \* concurrent callers of run() / lease()
MaxK == 2            \* max_concurrency is drawn from 0..MaxK
NumUpdaters == 2     \* concurrent callers of update_module()
MaxUpdates == 2      \* update_module() calls in one behaviour
MaxEvents == 3       \* filesystem events the watcher delivers in one behaviour
MaxFiles == 3        \* entries of the watched directory
MaxTime == 2         \* modification times are drawn from 0..MaxTime
IntBits == 3         \* the width an i32 is modelled on
MaxKeyLen == 1       \* bytes of a key in guest memory
MaxValLen == 2       \* bytes of a value in guest memory
JsonBits == 6        \* the width an i32 is modelled on where it counts JSON text
MaxRows == 3         \* rows of the table a guest queries
MaxCols == 2         \* columns of a select list
MaxTextLen == 2      \* bytes of a TEXT value
MaxRuns == 3         \* runs one after the other on one store

\* ------------------------------------------------------ program constants
MAX_STORE_INSTANTIATIONS == 1000
InitialGeneration == 0

Tasks == 1..NumTasks
Updaters == 1..NumUpdaters
InitialModule == 0                      \* the module WasmPool::new is given
\* module m > 0 is the m-th one written to the pointer
Modules == 0..(IF MaxUpdates >= MaxEvents THEN MaxUpdates ELSE MaxEvents)

VARIABLES
    max_concurrency,   \* the argument of WasmPool::new
    permits,           \* semaphore: available permits
    module,            \* the module behind the RwLock
    generation,        \* the AtomicU64
    free,              \* the Vec<PooledStore> behind the Mutex (top of stack = last)
    pc,                \* position of each run()/lease() caller
    permit,            \* whether the caller owns an OwnedSemaphorePermit
    lgen,              \* local `generation` of lease(), then Lease.generation
    linst,             \* Lease.instantiations
    lstore,            \* Lease.store (NoStore = None)
    modRead,           \* local `module` of run()
    result,            \* what run() returned
    upc,               \* position of each update_module() caller
    uarg,              \* the module of the update_module() call in progress, once written
    pubGen,            \* history: the generation each update_module call produced for its module
    returnedPos,       \* history: the latest module among those whose update_module call returned
    floor,             \* history: returnedPos when the caller's lease() returned
    dir,               \* what the filesystem holds at the watch target
    wpc,               \* position of the watcher thread of start_wasm_watcher
    signals,           \* the unbounded channel: number of () queued
    rpc,               \* position of the reload task
    loaded,            \* what the latest load_best_module call returned
    sent,              \* history: signals the watcher callback has sent
    attempts,          \* history: load_best_module calls of the reload task
    oks,               \* history: those that returned Ok
    burst,             \* history: signals taken up to the end of the first debounce sleep
    seen,              \* history: signals sent before the latest reload attempt started
    hcall,             \* the host call the guest made, with what it met
    hout,              \* what the call returned and did
    hio,               \* whether the call reached for a connection to the backend
    kv,                \* the keyspace of the KV backend
    gmem,              \* the linear memory of a guest
    kin,               \* the key, value and out_len the guest uses
    krets,             \* what the guest's calls have returned, in order
    kfail,             \* whether the backend has failed a command
    qtable,            \* the rows of the table in the SQL backend
    qcall,             \* the guest's pg_query: its select list, buffer and return
    qmem,              \* the linear memory of the guest that queries
    iomod,             \* the module of a pool that serves one request at a time
    iostore,           \* the store in that pool's free list, with its I/O context
    ioruns,            \* how many runs that pool has served
    iolast             \* the latest of them: its name, its module and what it returned

vars == <<max_concurrency, permits, module, generation, free, pc, permit, lgen, linst,
          lstore, modRead, result, upc, uarg, pubGen, returnedPos, floor,
          dir, wpc, signals, rpc, loaded, sent, attempts, oks, burst, seen, hcall, hout, hio,
          kv, gmem, kin, krets, kfail,
          qtable, qcall, qmem, iomod, iostore, ioruns, iolast>>

poolVars == <<max_concurrency, permits, module, generation, free>>
taskVars == <<pc, permit, lgen, linst, lstore, modRead, result, floor>>
updVars == <<upc, uarg, pubGen, returnedPos>>
reloadVars == <<dir, wpc, signals, rpc, loaded, sent, attempts, oks, burst, seen>>
hostVars == <<hcall, hout, hio>>
kvVars == <<kv, gmem, kin, krets, kfail>>
queryVars == <<qtable, qcall, qmem>>
ioVars == <<iomod, iostore, ioruns, iolast>>
guestVars == <<kvVars, queryVars, ioVars>>
envVars == <<reloadVars, hostVars, guestVars>>

\* ----------------------------------------------------------------- helpers
Max(a, b) == IF a >= b THEN a ELSE b

NoStore == [id |-> 0, mod |-> -1, count |-> 0]

\* Store::new(&self.engine, WasiCtx::builder().build_p1()): a store nobody else holds.
\* `mod` and `count` are history: the module last instantiated in it (-1: none yet) and
\* how many instantiations succeeded in it.
NewStore(id) == [id |-> id, mod |-> -1, count |-> 0]

PooledStore(g, n, s) == [generation |-> g, instantiations |-> n, store |-> s]

\* Vec::pop: the last element, and what is left of the vector
\* (faulty variant: the element is read but stays in the vector)
Top(s) == s[Len(s)]
PeekTail(s) == s
PopTail(s) == SubSeq(s, 1, Len(s) - 1)

\* The identity of a store is its place in memory: a new store is at a place that no
\* store alive (held by a Lease or lying in the free list) occupies.
UsedIds == {lstore[t].id : t \in Tasks} \cup {free[i].store.id : i \in 1..Len(free)}
FreshId == CHOOSE i \in 1..(Cardinality(UsedIds) + 1) :
               /\ i \notin UsedIds
               /\ \A j \in 1..(i - 1) : j \in UsedIds

\* --------------------------------------------------------------- WasmPool::new
\* let max = max_concurrency.max(1); ... Semaphore::new(max)
\* (faulty variant: the semaphore is given the configured value as it is)
ConfiguredPermits(k) == k
InitialPermits(k) == Max(k, 1)

PoolInit ==
    /\ max_concurrency \in 0..MaxK
    /\ permits = InitialPermits(max_concurrency)
    /\ module = InitialModule
    /\ generation = InitialGeneration
    /\ free = <<>>
    /\ pc = [t \in Tasks |-> "start"]
    /\ permit = [t \in Tasks |-> FALSE]
    /\ lgen = [t \in Tasks |-> 0]
    /\ linst = [t \in Tasks |-> 0]
    /\ lstore = [t \in Tasks |-> NoStore]
    /\ modRead = [t \in Tasks |-> -1]
    /\ result = [t \in Tasks |-> "none"]
    /\ floor = [t \in Tasks |-> 0]
    /\ upc = [u \in Updaters |-> "idle"]
    /\ uarg = [u \in Updaters |-> -1]
    /\ pubGen = [m \in Modules |-> IF m = InitialModule THEN InitialGeneration ELSE -1]
    /\ returnedPos = InitialModule

\* ------------------------------------------------------------ WasmPool::lease
\* the permit guard of acquire_owned: a permit must be available
\* (faulty variants: no wait at all; the last permit is never handed out)
NoWaiting(n) == TRUE
KeepsOnePermit(n) == n > 1
PermitAvailable(n) == n > 0

\* let permit = self.semaphore.clone().acquire_owned().await?;
Acquire(t) ==
    /\ pc[t] = "start"
    /\ PermitAvailable(permits)
    /\ permits' = permits - 1
    /\ permit' = [permit EXCEPT ![t] = TRUE]
    /\ pc' = [pc EXCEPT ![t] = "acquired"]
    /\ UNCHANGED <<max_concurrency, module, generation, free, lgen, linst, lstore,
                   modRead, result, floor>>
    /\ UNCHANGED updVars
    /\ UNCHANGED envVars

\* let generation = self.generation.load(Ordering::SeqCst);
Sample(t) ==
    /\ pc[t] = "acquired"
    /\ lgen' = [lgen EXCEPT ![t] = generation]
    /\ pc' = [pc EXCEPT ![t] = "sampled"]
    /\ UNCHANGED <<poolVars, permit, linst, lstore, modRead, result, floor>>
    /\ UNCHANGED updVars
    /\ UNCHANGED envVars

\* the critical section on self.free: pop, compare the tag, build the Lease
Pop(t) ==
    /\ pc[t] = "sampled"
    /\ LET reuse == free # <<>> /\ Top(free).generation = lgen[t]
       IN /\ free' = IF free = <<>> THEN free ELSE PopTail(free)
          /\ lstore' = [lstore EXCEPT ![t] =
                            IF reuse THEN Top(free).store ELSE NewStore(FreshId)]
          /\ linst' = [linst EXCEPT ![t] =
                            IF reuse THEN Top(free).instantiations ELSE 0]
    /\ floor' = [floor EXCEPT ![t] = returnedPos]
    /\ pc' = [pc EXCEPT ![t] = "leased"]
    /\ UNCHANGED <<max_concurrency, permits, module, generation, permit, lgen,
                   modRead, result>>
    /\ UNCHANGED updVars
    /\ UNCHANGED envVars

\* -------------------------------------------------------------- WasmPool::run
\* if lease.instantiations >= MAX_STORE_INSTANTIATIONS
\* (faulty variant: > in place of >=)
NeedsRecycleLate(n) == n > MAX_STORE_INSTANTIATIONS
NeedsRecycle(n) == n >= MAX_STORE_INSTANTIATIONS

\* self.module.read().await.clone()
\* (faulty variant: the module the pool was constructed with)
CurrentModuleStale == InitialModule
CurrentModule == module

\* From the return of lease() to the read of the module pointer: the pre-emptive
\* recycling of the store, the fresh I/O context, the fuel settings (the engines
\* of main.rs and of the tests are built with consume_fuel(true), so set_fuel
\* succeeds), and `self.module.read().await.clone()`.
ReadModule(t) ==
    /\ pc[t] = "leased"
    /\ IF NeedsRecycle(linst[t])
       THEN /\ lstore' = [lstore EXCEPT ![t] = NewStore(FreshId)]
            /\ linst' = [linst EXCEPT ![t] = 0]
       ELSE UNCHANGED <<lstore, linst>>
    /\ modRead' = [modRead EXCEPT ![t] = CurrentModule]
    /\ pc' = [pc EXCEPT ![t] = "inst"]
    /\ UNCHANGED <<poolVars, permit, lgen, result, floor>>
    /\ UNCHANGED updVars
    /\ UNCHANGED envVars

\* what linker.instantiate_async can answer, first attempt and retry
InstOutcomes == {"ok", "other", "count_ok", "count_err"}

\* a successful instantiation of module m in store s
Instantiated(s, m) == [s EXCEPT !.mod = m, !.count = @ + 1]

\* lease.instantiations.saturating_add(1); the count stays far below u32::MAX
SaturatingInc(n) == n + 1

\* linker.instantiate_async(store, module), the retry on "instance count too high",
\* and the increment of lease.instantiations
Instantiate(t) ==
    /\ pc[t] = "inst"
    /\ \E o \in InstOutcomes :
         CASE o = "ok" ->
                /\ lstore' = [lstore EXCEPT ![t] = Instantiated(@, modRead[t])]
                /\ linst' = [linst EXCEPT ![t] = SaturatingInc(@)]
                /\ pc' = [pc EXCEPT ![t] = "call"]
                /\ UNCHANGED result
           [] o = "other" ->
                /\ result' = [result EXCEPT ![t] = "instantiate_error"]
                /\ pc' = [pc EXCEPT ![t] = "drop"]
                /\ UNCHANGED <<lstore, linst>>
           [] o = "count_ok" ->
                /\ lstore' = [lstore EXCEPT ![t] =
                                  Instantiated(NewStore(FreshId), modRead[t])]
                /\ linst' = [linst EXCEPT ![t] = SaturatingInc(0)]
                /\ pc' = [pc EXCEPT ![t] = "call"]
                /\ UNCHANGED result
           [] o = "count_err" ->
                /\ lstore' = [lstore EXCEPT ![t] = NewStore(FreshId)]
                /\ linst' = [linst EXCEPT ![t] = 0]
                /\ result' = [result EXCEPT ![t] = "retry_error"]
                /\ pc' = [pc EXCEPT ![t] = "drop"]
    /\ modRead' = [modRead EXCEPT ![t] = -1]
    /\ floor' = [floor EXCEPT ![t] = 0]
    /\ UNCHANGED <<poolVars, permit, lgen>>
    /\ UNCHANGED updVars
    /\ UNCHANGED envVars

\* what resolving and calling `_start` can answer
StartOutcomes == {"ok", "start_error", "trap"}

\* instance.get_typed_func("_start")?.call_async(store, ()).await?; then the output
\* pipes are read and run() returns
CallStart(t) ==
    /\ pc[t] = "call"
    /\ \E o \in StartOutcomes : result' = [result EXCEPT ![t] = o]
    /\ pc' = [pc EXCEPT ![t] = "drop"]
    /\ UNCHANGED <<poolVars, permit, lgen, linst, lstore, modRead, floor>>
    /\ UNCHANGED updVars
    /\ UNCHANGED envVars

\* a caller of lease() that does not run a guest (tests::test_concurrency_is_limited)
HoldLease(t) ==
    /\ pc[t] = "leased"
    /\ result' = [result EXCEPT ![t] = "lease_only"]
    /\ pc' = [pc EXCEPT ![t] = "drop"]
    /\ UNCHANGED <<poolVars, permit, lgen, linst, lstore, modRead, floor>>
    /\ UNCHANGED updVars
    /\ UNCHANGED envVars

\* ------------------------------------------------------------ Drop for Lease
\* generation: self.generation, the field lease() filled with the value it sampled
\* (faulty variant: the entry is tagged with the pool's generation at drop time)
GenerationAtDrop(t) == generation
LeaseGeneration(t) == lgen[t]

DropLease(t) ==
    /\ pc[t] = "drop"
    /\ free' = Append(free, PooledStore(LeaseGeneration(t), linst[t], lstore[t]))
    /\ lstore' = [lstore EXCEPT ![t] = NoStore]
    /\ lgen' = [lgen EXCEPT ![t] = 0]
    /\ linst' = [linst EXCEPT ![t] = 0]
    /\ modRead' = [modRead EXCEPT ![t] = -1]
    /\ floor' = [floor EXCEPT ![t] = 0]
    /\ pc' = [pc EXCEPT ![t] = "release"]
    /\ UNCHANGED <<max_concurrency, permits, module, generation, permit, result>>
    /\ UNCHANGED updVars
    /\ UNCHANGED envVars

\* dropping an OwnedSemaphorePermit adds it back to the semaphore
\* (faulty variant: the permit is forgotten)
Forgotten(n) == n
Released(n) == n + 1

\* the Lease's fields are dropped after Drop::drop returns: _permit goes back
ReleasePermit(t) ==
    /\ pc[t] = "release"
    /\ permits' = Released(permits)
    /\ permit' = [permit EXCEPT ![t] = FALSE]
    /\ pc' = [pc EXCEPT ![t] = "done"]
    /\ UNCHANGED <<max_concurrency, module, generation, free, lgen, linst, lstore,
                   modRead, result, floor>>
    /\ UNCHANGED updVars
    /\ UNCHANGED envVars

\* run_handler serves the next request: run() is called again
Rerun(t) ==
    /\ pc[t] = "done"
    /\ pc' = [pc EXCEPT ![t] = "start"]
    /\ result' = [result EXCEPT ![t] = "none"]
    /\ UNCHANGED <<poolVars, permit, lgen, linst, lstore, modRead, floor>>
    /\ UNCHANGED updVars
    /\ UNCHANGED envVars

\* ----------------------------------------------------- WasmPool::update_module
\* update_module() calls that have written their module, and those about to
Written == module - InitialModule
Pending == Cardinality({u \in Updaters : upc[u] = "write"})

\* load_best_module answered Ok(new_module): pool.update_module(new_module) is called
CallUpdate(u) ==
    /\ upc[u] = "idle"
    /\ Written + Pending < MaxUpdates
    /\ upc' = [upc EXCEPT ![u] = "write"]
    /\ UNCHANGED <<poolVars, taskVars, uarg, pubGen, returnedPos, hostVars, guestVars>>
    /\ UNCHANGED envVars

\* The read guard of `self.module.read().await.clone()` is a temporary of that
\* statement: run() holds it while it clones the Arc and at no other point.
\* (faulty variant: run() keeps the guard while it instantiates and calls the guest)
GuardKeptByRun(t) == pc[t] \in {"inst", "call"}
HoldsReadGuard(t) == FALSE

\* *self.module.write().await = Arc::new(module);
\* The write lock is granted when no read guard is held.
\* A module is named by its rank in the order of these writes.
WriteModule(u) ==
    /\ upc[u] = "write"
    /\ \A t \in Tasks : ~HoldsReadGuard(t)
    /\ module' = module + 1
    /\ uarg' = [uarg EXCEPT ![u] = module + 1]
    /\ upc' = [upc EXCEPT ![u] = "inc"]
    /\ UNCHANGED <<max_concurrency, permits, generation, free, taskVars,
                   pubGen, returnedPos>>
    /\ UNCHANGED envVars

\* fetch_add(1): the value the counter takes, read and written in one step
\* (faulty variant: the counter is loaded but not advanced)
LoadOnly(g) == g
FetchAdd(g) == g + 1

\* self.generation.fetch_add(1, Ordering::SeqCst);
BumpGeneration(u) ==
    /\ upc[u] = "inc"
    /\ generation' = FetchAdd(generation)
    /\ pubGen' = [pubGen EXCEPT ![uarg[u]] = generation']
    /\ upc' = [upc EXCEPT ![u] = "clear"]
    /\ UNCHANGED <<max_concurrency, permits, module, free, taskVars,
                   uarg, returnedPos>>
    /\ UNCHANGED envVars

\* self.free.lock().unwrap().clear(); and update_module returns
ClearFree(u) ==
    /\ upc[u] = "clear"
    /\ free' = <<>>
    /\ returnedPos' = Max(returnedPos, uarg[u])
    /\ uarg' = [uarg EXCEPT ![u] = -1]
    /\ upc' = [upc EXCEPT ![u] = "idle"]
    /\ UNCHANGED <<max_concurrency, permits, module, generation, taskVars, pubGen>>
    /\ UNCHANGED envVars

\* load_best_module answered Err: the reload task prints "WASM reload skipped" and
\* waits for the next signal; update_module is not called
SkipReload(u) ==
    /\ upc[u] = "idle"
    /\ UNCHANGED vars

\* start_wasm_watcher spawns one reload task, the only caller of update_module
ReloadTask == 1

\* ------------------------------------------------- main.rs: load_best_module
\* std::time::UNIX_EPOCH on the scale of Times
UNIX_EPOCH == 0
Times == 0..MaxTime

\* One entry of the watch target.  Its place in the listing is its path.
\*   wasm:     the extension is "wasm"
\*   meta:     "ok"       std::fs::metadata and Metadata::modified both answer
\*             "no_mtime" metadata answers, modified() does not
\*             "no_meta"  metadata itself fails
\*   mtime:    the modification time (kept at UNIX_EPOCH where it cannot be read)
\*   compiles: whether Module::from_file succeeds on it
Files == {f \in [wasm : BOOLEAN, meta : {"ok", "no_mtime", "no_meta"},
                 mtime : Times, compiles : BOOLEAN] :
              f.meta # "ok" => f.mtime = UNIX_EPOCH}

RECURSIVE SeqsUpTo(_, _)
SeqsUpTo(S, n) ==
    IF n = 0 THEN {<<>>}
    ELSE LET shorter == SeqsUpTo(S, n - 1)
         IN  shorter \cup {Append(q, x) : q \in shorter, x \in S}

\* the watch target: a directory whose listing may fail, with its entries in
\* read_dir order
Dirs == {[readable |-> TRUE, entries |-> es] : es \in SeqsUpTo(Files, MaxFiles)}
            \cup {[readable |-> FALSE, entries |-> <<>>]}

RECURSIVE WasmPaths(_, _)
WasmPaths(d, i) ==
    IF i > Len(d.entries) THEN <<>>
    ELSE (IF d.entries[i].wasm THEN <<i>> ELSE <<>>) \o WasmPaths(d, i + 1)

\* list_wasm_candidates: Err when read_dir or one of its entries fails
list_wasm_candidates(d) ==
    IF d.readable THEN [ok |-> TRUE, paths |-> WasmPaths(d, 1)]
    ELSE [ok |-> FALSE, paths |-> <<>>]

\* the loop that fills with_mtime: a path whose metadata fails is not pushed
RECURSIVE WithMtime(_, _)
WithMtime(d, ps) ==
    IF ps = <<>> THEN <<>>
    ELSE LET p == Head(ps)
             f == d.entries[p]
             mine == IF f.meta = "no_meta" THEN <<>>
                     ELSE <<[mtime |-> IF f.meta = "ok" THEN f.mtime ELSE UNIX_EPOCH,
                             path |-> p]>>
         IN  mine \o WithMtime(d, Tail(ps))

\* the comparator of sort_by(|a, b| b.0.cmp(&a.0)): a goes before b
\* (faulty variant: oldest first)
OldestFirst(a, b) == a.mtime < b.mtime
NewestFirst(a, b) == a.mtime > b.mtime

\* slice::sort_by is stable: elements that compare equal keep their order
RECURSIVE InsertSorted(_, _)
InsertSorted(x, s) ==
    IF s = <<>> THEN <<x>>
    ELSE IF NewestFirst(x, Head(s)) THEN <<x>> \o s
    ELSE <<Head(s)>> \o InsertSorted(x, Tail(s))

RECURSIVE SortByMtime(_)
SortByMtime(s) ==
    IF s = <<>> THEN <<>>
    ELSE InsertSorted(s[Len(s)], SortByMtime(SubSeq(s, 1, Len(s) - 1)))

LoadErr == [ok |-> FALSE, file |-> 0]
NoLoad == [ok |-> FALSE, file |-> -1]

\* for (_, p) in with_mtime { if let Ok(m) = Module::from_file(engine, &p) { return Ok(m) } }
RECURSIVE FirstCompiling(_, _)
FirstCompiling(d, s) ==
    IF s = <<>> THEN LoadErr
    ELSE IF d.entries[Head(s).path].compiles THEN [ok |-> TRUE, file |-> Head(s).path]
    ELSE FirstCompiling(d, Tail(s))

\* load_best_module: the module is named by the path it was compiled from
load_best_module(d) ==
    LET candidates == list_wasm_candidates(d)
    IN  IF ~candidates.ok THEN LoadErr
        ELSE FirstCompiling(d, SortByMtime(WithMtime(d, candidates.paths)))

\* AppState::new: load_best_module(&engine, &wasm_path)?
StartupLoad ==
    /\ loaded = NoLoad
    /\ loaded' = load_best_module(dir)
    /\ UNCHANGED <<poolVars, taskVars, updVars, hostVars, guestVars>>
    /\ UNCHANGED <<dir, wpc, signals, rpc, sent, attempts, oks, burst, seen>>

\* ----------------------------------------------- main.rs: start_wasm_watcher
\* What the reload behaviours let the watch target hold: at most one entry.
WatchedDirs == {d \in Dirs : Len(d.entries) <= 1}

\* the watcher exists and the watch root is registered: the callback is called
\* (faulty variant: events are delivered whatever became of the watcher)
WatchingAnyway == TRUE
Watching == wpc = "watching"

\* the Sender lives in the watcher's callback: it is dropped with the watcher
TxAlive == wpc # "failed"

\* notify::recommended_watcher(...) answers Ok(w)
WatcherCreated ==
    /\ wpc = "create"
    /\ wpc' = "watch"
    /\ UNCHANGED <<poolVars, taskVars, updVars, hostVars, guestVars>>
    /\ UNCHANGED <<dir, signals, rpc, loaded, sent, attempts, oks, burst, seen>>

\* ... or Err(e): "failed to create watcher", the thread returns
WatcherCreateFailed ==
    /\ wpc = "create"
    /\ wpc' = "failed"
    /\ UNCHANGED <<poolVars, taskVars, updVars, hostVars, guestVars>>
    /\ UNCHANGED <<dir, signals, rpc, loaded, sent, attempts, oks, burst, seen>>

\* watcher.watch(&watch_root, mode) answers Ok(())
WatchRegistered ==
    /\ wpc = "watch"
    /\ wpc' = "watching"
    /\ UNCHANGED <<poolVars, taskVars, updVars, hostVars, guestVars>>
    /\ UNCHANGED <<dir, signals, rpc, loaded, sent, attempts, oks, burst, seen>>

\* ... or Err(e): "failed to watch", the thread returns and drops the watcher
WatchFailed ==
    /\ wpc = "watch"
    /\ wpc' = "failed"
    /\ UNCHANGED <<poolVars, taskVars, updVars, hostVars, guestVars>>
    /\ UNCHANGED <<dir, signals, rpc, loaded, sent, attempts, oks, burst, seen>>

\* tx.send(()) on the unbounded channel: the signal is queued whether or not the
\* reload task is waiting in recv
\* (faulty variant: a signal sent while the task is busy is dropped)
SentWhileWaiting(n, busy) == IF busy THEN n ELSE n + 1
Queued(n, busy) == n + 1

\* the watch target changes and the callback gets Ok(event): let _ = tx.send(())
FsEvent(d) ==
    /\ Watching
    /\ sent < MaxEvents
    /\ dir' = d
    /\ signals' = Queued(signals, rpc # "recv" \/ upc[ReloadTask] # "idle")
    /\ sent' = sent + 1
    /\ UNCHANGED <<poolVars, taskVars, updVars, hostVars, guestVars>>
    /\ UNCHANGED <<wpc, rpc, loaded, attempts, oks, burst, seen>>

\* the watch target changes while nothing watches it
FsChangeUnwatched(d) ==
    /\ wpc # "watching"
    /\ d # dir
    /\ dir' = d
    /\ UNCHANGED <<poolVars, taskVars, updVars, hostVars, guestVars>>
    /\ UNCHANGED <<wpc, signals, rpc, loaded, sent, attempts, oks, burst, seen>>

\* while rx.recv().await.is_some() { tokio::time::sleep(200 ms) ...
\* (the task is at recv again only once update_module has returned)
RecvSignal ==
    /\ rpc = "recv"
    /\ upc[ReloadTask] = "idle"
    /\ signals > 0
    /\ signals' = signals - 1
    /\ rpc' = "sleep"
    /\ UNCHANGED <<poolVars, taskVars, updVars, hostVars, guestVars>>
    /\ UNCHANGED <<dir, wpc, loaded, sent, attempts, oks, burst, seen>>

\* rx.recv() answers None: the channel is empty and its Sender dropped
RecvClosed ==
    /\ rpc = "recv"
    /\ upc[ReloadTask] = "idle"
    /\ signals = 0
    /\ ~TxAlive
    /\ rpc' = "ended"
    /\ UNCHANGED <<poolVars, taskVars, updVars, hostVars, guestVars>>
    /\ UNCHANGED <<dir, wpc, signals, loaded, sent, attempts, oks, burst, seen>>

\* what `while rx.try_recv().is_ok() {}` leaves of n queued signals
\* (faulty variant: the queue is left as it is)
NoDrain(n) == n
Drained(n) == 0

\* the sleep is over: while rx.try_recv().is_ok() {}
WakeAndDrain ==
    /\ rpc = "sleep"
    /\ signals' = Drained(signals)
    /\ burst' = IF burst = -1 THEN signals + 1 ELSE burst
    /\ seen' = sent
    /\ rpc' = "load"
    /\ UNCHANGED <<poolVars, taskVars, updVars, hostVars, guestVars>>
    /\ UNCHANGED <<dir, wpc, loaded, sent, attempts, oks>>

\* match load_best_module(...): the Ok(new_module) arm is taken
\* (faulty variant: it is taken whatever the answer)
AnyAnswer(r) == TRUE
LoadOk(r) == r.ok

\* match load_best_module(&engine, &wasm_path) {
\*     Ok(new_module) => pool.update_module(new_module).await,
\*     Err(e) => eprintln!("WASM reload skipped: {e}") }
Load ==
    /\ rpc = "load"
    /\ loaded' = load_best_module(dir)
    /\ attempts' = attempts + 1
    /\ IF LoadOk(loaded')
       THEN /\ upc' = [upc EXCEPT ![ReloadTask] = "write"]
            /\ oks' = oks + 1
       ELSE UNCHANGED <<upc, oks>>
    /\ rpc' = "recv"
    /\ UNCHANGED <<poolVars, taskVars, uarg, pubGen, returnedPos, hostVars, guestVars>>
    /\ UNCHANGED <<dir, wpc, signals, sent, burst, seen>>

\* ------------------------------------- postgres.rs / redis.rs: the host bridge
\* An i32 is modelled on IntBits bits and a usize or u64 as a natural number up to
\* MaxLen, which is more than IntBits bits hold; a linear memory of the 32-bit guest
\* has at most 2^IntBits bytes.
I32Min == -(2 ^ (IntBits - 1))
I32Max == 2 ^ (IntBits - 1) - 1
MemMax == 2 ^ IntBits
MaxLen == MemMax + 1

\* `n as i32` for a usize n: the low bits, read as a signed number
AsI32(n) ==
    LET low == n % (2 ^ IntBits)
    IN  IF low > I32Max THEN low - 2 ^ IntBits ELSE low

\* n.min(i32::MAX as u64) as i32
\* (faulty variant: the cast without the min)
TruncatingCast(n) == AsI32(n)
SaturatingCast(n) == AsI32(IF n <= I32Max THEN n ELSE I32Max)

\* the guest's linear memory: its size in bytes, or no export named "memory"
NoExport == -1
Memories == {NoExport, MemMax \div 2, MemMax}

\* the values a pointer or length argument is drawn from, and the i64 ttl_s
ArgVals == {I32Min, -1, 0, 1, I32Max}
TtlVals == {-1, 0, 1}

\* the addresses of len bytes at ptr
Bytes(ptr, len) == ptr..(ptr + len - 1)

\* read_guest_bytes answers Ok: arguments not negative, a memory export, and
\* Memory::read finds the range inside the memory
Readable(mem, ptr, len) ==
    /\ ptr >= 0 /\ len >= 0
    /\ mem # NoExport
    /\ ptr + len <= mem

\* write_guest_bytes answers Ok for n bytes of data
Writable(mem, ptr, n) ==
    /\ ptr >= 0
    /\ mem # NoExport
    /\ ptr + n <= mem

\* String::from_utf8 on the bytes read: the empty string is always valid
ValidUtf8(c) == c.len = 0 \/ c.utf8

\* What a call did: the i32 it returned, the guest addresses it read and wrote,
\* whether it called the adapter, and whether it returned Err (a trap) to the guest.
Outcome(r, rd, wr, io) == [ret |-> r, read |-> rd, written |-> wr, called |-> io, trap |-> FALSE]
NoOutcome == Outcome(0, {}, {}, FALSE)

\* What the adapter answers.  "disabled": the pool is None; "error": the pool or the
\* command fails; "unserializable": serde_json::to_vec fails on the rows; "absent":
\* GET finds no key; "ok" with n: rows affected, payload or value length, keys
\* deleted, or 1 / 0 for EXISTS.
Answers(kinds, ns) ==
    {[kind |-> k, n |-> 0] : k \in kinds} \cup {[kind |-> "ok", n |-> n] : n \in ns}

\* A call: the function, its arguments (len2 is out_len or vlen, ptr2 out_ptr or
\* vptr), and what it meets: the memory, the bytes of the key or SQL, the adapter.
Call(f, p, l, p2, l2, ttl, mem, utf8, b) ==
    [fn |-> f, ptr |-> p, len |-> l, ptr2 |-> p2, len2 |-> l2, ttl |-> ttl,
     mem |-> mem, utf8 |-> utf8, backend |-> b]
NoCall == Call("none", 0, 0, 0, 0, 0, NoExport, TRUE, [kind |-> "ok", n |-> 0])

TwoArgCalls(f, answers) ==
    {Call(f, p, l, 0, 0, 0, mem, utf8, b) :
        p \in ArgVals, l \in ArgVals, mem \in Memories, utf8 \in BOOLEAN, b \in answers}
FourArgCalls(f, ttls, answers) ==
    {Call(f, p, l, p2, l2, ttl, mem, utf8, b) :
        p \in ArgVals, l \in ArgVals, p2 \in ArgVals, l2 \in ArgVals, ttl \in ttls,
        mem \in Memories, utf8 \in BOOLEAN, b \in answers}

\* bosbase_pg.pg_exec(sql_ptr, sql_len)
pg_exec(c) ==
    IF ~Readable(c.mem, c.ptr, c.len) THEN Outcome(-2, {}, {}, FALSE)
    ELSE IF ~ValidUtf8(c) THEN Outcome(-2, Bytes(c.ptr, c.len), {}, FALSE)
    ELSE IF c.backend.kind = "ok"
         THEN Outcome(SaturatingCast(c.backend.n), Bytes(c.ptr, c.len), {}, TRUE)
    ELSE Outcome(-1, Bytes(c.ptr, c.len), {}, TRUE)

\* bosbase_pg.pg_query(sql_ptr, sql_len, out_ptr, out_len)
pg_query(c) ==
    IF c.len2 < 0 THEN Outcome(-3, {}, {}, FALSE)
    ELSE IF ~Readable(c.mem, c.ptr, c.len) THEN Outcome(-3, {}, {}, FALSE)
    ELSE IF ~ValidUtf8(c) THEN Outcome(-3, Bytes(c.ptr, c.len), {}, FALSE)
    ELSE IF c.backend.kind # "ok" THEN Outcome(-1, Bytes(c.ptr, c.len), {}, TRUE)
    ELSE IF AsI32(c.backend.n) > c.len2 THEN Outcome(-2, Bytes(c.ptr, c.len), {}, TRUE)
    ELSE IF ~Writable(c.mem, c.ptr2, c.backend.n)
         THEN Outcome(-3, Bytes(c.ptr, c.len), {}, TRUE)
    ELSE Outcome(AsI32(c.backend.n), Bytes(c.ptr, c.len),
                 Bytes(c.ptr2, c.backend.n), TRUE)

\* bosbase_redis.redis_get(kptr, klen, out_ptr, out_len)
redis_get(c) ==
    IF c.len2 < 0 THEN Outcome(-3, {}, {}, FALSE)
    ELSE IF ~Readable(c.mem, c.ptr, c.len) THEN Outcome(-3, {}, {}, FALSE)
    ELSE IF ~ValidUtf8(c) THEN Outcome(-3, Bytes(c.ptr, c.len), {}, FALSE)
    ELSE IF c.backend.kind \in {"disabled", "error"}
         THEN Outcome(-4, Bytes(c.ptr, c.len), {}, TRUE)
    ELSE IF c.backend.kind = "absent" THEN Outcome(-1, Bytes(c.ptr, c.len), {}, TRUE)
    ELSE IF AsI32(c.backend.n) > c.len2 THEN Outcome(-2, Bytes(c.ptr, c.len), {}, TRUE)
    ELSE IF ~Writable(c.mem, c.ptr2, c.backend.n)
         THEN Outcome(-3, Bytes(c.ptr, c.len), {}, TRUE)
    ELSE Outcome(AsI32(c.backend.n), Bytes(c.ptr, c.len),
                 Bytes(c.ptr2, c.backend.n), TRUE)

\* bosbase_redis.redis_set(kptr, klen, vptr, vlen)
redis_set(c) ==
    IF ~Readable(c.mem, c.ptr, c.len) THEN Outcome(-2, {}, {}, FALSE)
    ELSE IF ~Readable(c.mem, c.ptr2, c.len2) THEN Outcome(-2, Bytes(c.ptr, c.len), {}, FALSE)
    ELSE IF ~ValidUtf8(c)
         THEN Outcome(-2, Bytes(c.ptr, c.len) \cup Bytes(c.ptr2, c.len2), {}, FALSE)
    ELSE IF c.backend.kind = "ok"
         THEN Outcome(0, Bytes(c.ptr, c.len) \cup Bytes(c.ptr2, c.len2), {}, TRUE)
    ELSE Outcome(-1, Bytes(c.ptr, c.len) \cup Bytes(c.ptr2, c.len2), {}, TRUE)

\* bosbase_redis.redis_set_ex(kptr, klen, vptr, vlen, ttl_s)
\* if ttl_s < 0 { return Ok(-2); }
\* (faulty variant: no ttl is rejected)
AnyTtl(ttl) == FALSE
NegativeTtl(ttl) == ttl < 0

redis_set_ex(c) ==
    IF NegativeTtl(c.ttl) THEN Outcome(-2, {}, {}, FALSE)
    ELSE redis_set(c)

\* bosbase_redis.redis_exists(kptr, klen)
redis_exists(c) ==
    IF ~Readable(c.mem, c.ptr, c.len) THEN Outcome(-1, {}, {}, FALSE)
    ELSE IF ~ValidUtf8(c) THEN Outcome(-1, Bytes(c.ptr, c.len), {}, FALSE)
    ELSE IF c.backend.kind = "ok"
         THEN Outcome(IF c.backend.n = 1 THEN 1 ELSE 0, Bytes(c.ptr, c.len), {}, TRUE)
    ELSE Outcome(-1, Bytes(c.ptr, c.len), {}, TRUE)

\* bosbase_redis.redis_del(kptr, klen)
redis_del(c) ==
    IF ~Readable(c.mem, c.ptr, c.len) THEN Outcome(-1, {}, {}, FALSE)
    ELSE IF ~ValidUtf8(c) THEN Outcome(-1, Bytes(c.ptr, c.len), {}, FALSE)
    ELSE IF c.backend.kind = "ok"
         THEN Outcome(SaturatingCast(c.backend.n), Bytes(c.ptr, c.len), {}, TRUE)
    ELSE Outcome(-1, Bytes(c.ptr, c.len), {}, TRUE)

\* let Some(pool) = self.pool.as_ref() else { return Err(disabled_error()) };
\* an adapter operation goes on to pool.get() only when the adapter has a pool
\* (faulty variant: it goes on whatever the adapter holds)
ConnectsAnyway(b) == TRUE
Connects(b) == b.kind # "disabled"

\* The guest makes its call: each host function is one step, from the call to the
\* i32 that comes back.
PgExecCall ==
    /\ hcall = NoCall
    /\ \E c \in TwoArgCalls("pg_exec", Answers({"disabled", "error"}, 0..MaxLen)) :
          /\ hcall' = c
          /\ hout' = pg_exec(c)
          /\ hio' = (hout'.called /\ Connects(c.backend))
    /\ UNCHANGED <<poolVars, taskVars, updVars, reloadVars, guestVars>>
PgQueryCall ==
    /\ hcall = NoCall
    /\ \E c \in FourArgCalls("pg_query", {0},
                             Answers({"disabled", "error", "unserializable"}, 0..MaxLen)) :
          /\ hcall' = c
          /\ hout' = pg_query(c)
          /\ hio' = (hout'.called /\ Connects(c.backend))
    /\ UNCHANGED <<poolVars, taskVars, updVars, reloadVars, guestVars>>
RedisGetCall ==
    /\ hcall = NoCall
    /\ \E c \in FourArgCalls("redis_get", {0},
                             Answers({"disabled", "error", "absent"}, 0..MaxLen)) :
          /\ hcall' = c
          /\ hout' = redis_get(c)
          /\ hio' = (hout'.called /\ Connects(c.backend))
    /\ UNCHANGED <<poolVars, taskVars, updVars, reloadVars, guestVars>>
RedisSetCall ==
    /\ hcall = NoCall
    /\ \E c \in FourArgCalls("redis_set", {0}, Answers({"disabled", "error"}, {0})) :
          /\ hcall' = c
          /\ hout' = redis_set(c)
          /\ hio' = (hout'.called /\ Connects(c.backend))
    /\ UNCHANGED <<poolVars, taskVars, updVars, reloadVars, guestVars>>
RedisSetExCall ==
    /\ hcall = NoCall
    /\ \E c \in FourArgCalls("redis_set_ex", TtlVals, Answers({"disabled", "error"}, {0})) :
          /\ hcall' = c
          /\ hout' = redis_set_ex(c)
          /\ hio' = (hout'.called /\ Connects(c.backend))
    /\ UNCHANGED <<poolVars, taskVars, updVars, reloadVars, guestVars>>
RedisExistsCall ==
    /\ hcall = NoCall
    /\ \E c \in TwoArgCalls("redis_exists", Answers({"disabled", "error"}, {0, 1})) :
          /\ hcall' = c
          /\ hout' = redis_exists(c)
          /\ hio' = (hout'.called /\ Connects(c.backend))
    /\ UNCHANGED <<poolVars, taskVars, updVars, reloadVars, guestVars>>
RedisDelCall ==
    /\ hcall = NoCall
    /\ \E c \in TwoArgCalls("redis_del", Answers({"disabled", "error"}, 0..MaxLen)) :
          /\ hcall' = c
          /\ hout' = redis_del(c)
          /\ hio' = (hout'.called /\ Connects(c.backend))
    /\ UNCHANGED <<poolVars, taskVars, updVars, reloadVars, guestVars>>

\* -------------------------------------------- redis.rs: a guest and its keys
\* Bytes of guest memory: 0, the letters a and b, and 0xFF, which no UTF-8 text holds.
ByteVals == {0, 97, 98, 255}

\* String::from_utf8 answers Ok on these bytes
Utf8(bs) == \A i \in 1..Len(bs) : bs[i] # 255

\* the key and value a guest may lay out in its memory
KeyBytes == SeqsUpTo({97, 98, 255}, MaxKeyLen)
ValBytes == SeqsUpTo({97, 255}, MaxValLen)

\* The guest's memory, as the guest of redis_tests lays it out: the key at KeyPtr,
\* the value at ValPtr, and a buffer for redis_get at BufPtr.
KeyPtr == 0
ValPtr == MaxKeyLen
BufPtr == MaxKeyLen + MaxValLen
BufCap == MaxValLen + 1
GuestMemLen == BufPtr + BufCap

Padded(bs, n) == bs \o [i \in 1..(n - Len(bs)) |-> 0]
GuestMemory(k, v) == Padded(k, MaxKeyLen) \o Padded(v, MaxValLen) \o Padded(<<>>, BufCap)

\* Memory::read and Memory::write on a range that lies inside the memory
ReadBytes(mem, ptr, len) == SubSeq(mem, ptr + 1, ptr + len)
WriteBytes(mem, ptr, data) ==
    [i \in 1..Len(mem) |-> IF i > ptr /\ i <= ptr + Len(data) THEN data[i - ptr] ELSE mem[i]]

\* The keyspace of the backend: for each key, whether it is there and its value.
KvKeys == {k \in KeyBytes : Utf8(k)}
Absent == [there |-> FALSE, val |-> <<>>]
Held(v) == [there |-> TRUE, val |-> v]

\* what SET and DEL make of the keyspace
\* (faulty variant: DEL leaves the key)
StoreSet(s, k, v) == [s EXCEPT ![k] = Held(v)]
StoreKeep(s, k) == s
StoreDel(s, k) == [s EXCEPT ![k] = Absent]

\* what a host call leaves: its return value, the guest memory and the keyspace
KvResult(r, m, s) == [ret |-> r, mem |-> m, kv |-> s]

\* redis_set on the guest's memory; up: the backend answers the command
GuestRedisSet(mem, s, kptr, klen, vptr, vlen, up) ==
    IF ~Readable(Len(mem), kptr, klen) THEN KvResult(-2, mem, s)
    ELSE IF ~Readable(Len(mem), vptr, vlen) THEN KvResult(-2, mem, s)
    ELSE IF ~Utf8(ReadBytes(mem, kptr, klen)) THEN KvResult(-2, mem, s)
    ELSE IF ~up THEN KvResult(-1, mem, s)
    ELSE KvResult(0, mem, StoreSet(s, ReadBytes(mem, kptr, klen), ReadBytes(mem, vptr, vlen)))

\* redis_get on the guest's memory
GuestRedisGet(mem, s, kptr, klen, out_ptr, out_len, up) ==
    IF out_len < 0 THEN KvResult(-3, mem, s)
    ELSE IF ~Readable(Len(mem), kptr, klen) THEN KvResult(-3, mem, s)
    ELSE IF ~Utf8(ReadBytes(mem, kptr, klen)) THEN KvResult(-3, mem, s)
    ELSE IF ~up THEN KvResult(-4, mem, s)
    ELSE LET e == s[ReadBytes(mem, kptr, klen)]
         IN  IF ~e.there THEN KvResult(-1, mem, s)
             ELSE IF AsI32(Len(e.val)) > out_len THEN KvResult(-2, mem, s)
             ELSE IF ~Writable(Len(mem), out_ptr, Len(e.val)) THEN KvResult(-3, mem, s)
             ELSE KvResult(AsI32(Len(e.val)), WriteBytes(mem, out_ptr, e.val), s)

\* redis_del on the guest's memory: DEL answers the number of keys it removed
GuestRedisDel(mem, s, kptr, klen, up) ==
    IF ~Readable(Len(mem), kptr, klen) THEN KvResult(-1, mem, s)
    ELSE IF ~Utf8(ReadBytes(mem, kptr, klen)) THEN KvResult(-1, mem, s)
    ELSE IF ~up THEN KvResult(-1, mem, s)
    ELSE LET k == ReadBytes(mem, kptr, klen)
         IN  KvResult(SaturatingCast(IF s[k].there THEN 1 ELSE 0), mem, StoreDel(s, k))

\* The guest's calls, in the order of the round trip: set, get, del, get; then the
\* host asks RedisHost::exists.  krets holds what has returned so far.
GuestSet ==
    /\ Len(krets) = 0
    /\ \E up \in BOOLEAN :
          LET r == GuestRedisSet(gmem, kv, KeyPtr, Len(kin.key), ValPtr, Len(kin.val), up)
          IN  /\ krets' = Append(krets, r.ret)
              /\ gmem' = r.mem
              /\ kv' = r.kv
              /\ kfail' = (kfail \/ ~up)
    /\ UNCHANGED kin
    /\ UNCHANGED <<poolVars, taskVars, updVars, reloadVars, hostVars, queryVars, ioVars>>

GuestGet ==
    /\ Len(krets) \in {1, 3}
    /\ \E up \in BOOLEAN :
          LET r == GuestRedisGet(gmem, kv, KeyPtr, Len(kin.key), BufPtr, kin.outLen, up)
          IN  /\ krets' = Append(krets, r.ret)
              /\ gmem' = r.mem
              /\ kv' = r.kv
              /\ kfail' = (kfail \/ ~up)
    /\ UNCHANGED kin
    /\ UNCHANGED <<poolVars, taskVars, updVars, reloadVars, hostVars, queryVars, ioVars>>

GuestDel ==
    /\ Len(krets) = 2
    /\ \E up \in BOOLEAN :
          LET r == GuestRedisDel(gmem, kv, KeyPtr, Len(kin.key), up)
          IN  /\ krets' = Append(krets, r.ret)
              /\ gmem' = r.mem
              /\ kv' = r.kv
              /\ kfail' = (kfail \/ ~up)
    /\ UNCHANGED kin
    /\ UNCHANGED <<poolVars, taskVars, updVars, reloadVars, hostVars, queryVars, ioVars>>

\* redis.exists(key).await on the host side: 1 for Ok(true), 0 for Ok(false), -1 for Err
HostExists ==
    /\ Len(krets) = 4
    /\ Utf8(kin.key)
    /\ \E up \in BOOLEAN :
          /\ krets' = Append(krets, IF ~up THEN -1 ELSE IF kv[kin.key].there THEN 1 ELSE 0)
          /\ kfail' = (kfail \/ ~up)
    /\ UNCHANGED <<kin, gmem, kv>>
    /\ UNCHANGED <<poolVars, taskVars, updVars, reloadVars, hostVars, queryVars, ioVars>>

\* ------------------------------------ postgres.rs: a guest and its result rows
\* The bytes JSON text is made of.
QUOTE == 34
BACKSLASH == 92
COMMA == 44
COLON == 58
LBRACKET == 91
RBRACKET == 93
LBRACE == 123
RBRACE == 125
DIGIT0 == 48
NullText == <<110, 117, 108, 108>>

\* an i32 on JsonBits bits, wide enough for a JSON text with two rows in it
JsonI32Max == 2 ^ (JsonBits - 1) - 1
JsonMemLen == 2 ^ JsonBits
JsonAsI32(n) ==
    LET low == n % (2 ^ JsonBits)
    IN  IF low > JsonI32Max THEN low - 2 ^ JsonBits ELSE low

\* serde_json::Value, as far as query_json builds it: Null, a number, a string
JNull == [t |-> "null", n |-> 0, s |-> <<>>]
JNum(i) == [t |-> "num", n |-> i, s |-> <<>>]
JStr(bs) == [t |-> "str", n |-> 0, s |-> bs]

\* The table the guest's statements work on: v TEXT (NULL allowed) and id SERIAL.
\* A TEXT cell holds the letter a and the double quote, which JSON must escape.
NoText == <<0>>
TextVals == SeqsUpTo({97, QUOTE}, MaxTextLen)
TableRow(id, v) == [id |-> id, v |-> v]

\* The select list of a statement: which column, under which name, for each output
\* column.  The column x is NUMERIC, a type query_json has no arm for.
ColNames == {<<97>>, <<98>>}
SelectLists == SeqsUpTo([col : {"v", "id", "x"}, name : ColNames], MaxCols)

\* row.try_get::<_, Option<T>>(i).ok().flatten() turned into a JsonValue, by the
\* arm of the column's type
CellJson(row, col) ==
    IF col = "id" THEN JNum(row.id)
    ELSE IF col = "v" THEN (IF row.v = NoText THEN JNull ELSE JStr(row.v))
    ELSE JNull

\* Ord for String: byte by byte, a prefix first
RECURSIVE StrLess(_, _)
StrLess(x, y) ==
    IF y = <<>> THEN FALSE
    ELSE IF x = <<>> THEN TRUE
    ELSE IF Head(x) # Head(y) THEN Head(x) < Head(y)
    ELSE StrLess(Tail(x), Tail(y))

\* BTreeMap::insert on a map held as its entries in key order: a key that is
\* there gets the new value
RECURSIVE BTreeInsert(_, _, _)
BTreeInsert(obj, name, v) ==
    IF obj = <<>> THEN <<[k |-> name, v |-> v]>>
    ELSE IF Head(obj).k = name THEN <<[k |-> name, v |-> v]>> \o Tail(obj)
    ELSE IF StrLess(name, Head(obj).k) THEN <<[k |-> name, v |-> v]>> \o obj
    ELSE <<Head(obj)>> \o BTreeInsert(Tail(obj), name, v)

\* the loop over row.columns(): the object of one row, its entries as
\* obj.into_iter() yields them
RECURSIVE RowObject(_, _, _)
RowObject(row, sel, obj) ==
    IF sel = <<>> THEN obj
    ELSE RowObject(row, Tail(sel), BTreeInsert(obj, Head(sel).name, CellJson(row, Head(sel).col)))

\* query_json: one object per row, in the order of the rows
query_json(rows, sel) == [i \in 1..Len(rows) |-> RowObject(rows[i], sel, <<>>)]

\* serde_json::to_vec
RECURSIVE Escaped(_)
Escaped(bs) ==
    IF bs = <<>> THEN <<>>
    ELSE (IF Head(bs) \in {QUOTE, BACKSLASH} THEN <<BACKSLASH, Head(bs)>> ELSE <<Head(bs)>>)
         \o Escaped(Tail(bs))
StringText(bs) == <<QUOTE>> \o Escaped(bs) \o <<QUOTE>>
ValueText(j) ==
    IF j.t = "null" THEN NullText
    ELSE IF j.t = "num" THEN <<DIGIT0 + j.n>>
    ELSE StringText(j.s)
RECURSIVE MembersText(_)
MembersText(obj) ==
    IF obj = <<>> THEN <<>>
    ELSE StringText(Head(obj).k) \o <<COLON>> \o ValueText(Head(obj).v)
         \o (IF Tail(obj) = <<>> THEN <<>> ELSE <<COMMA>> \o MembersText(Tail(obj)))
ObjectText(obj) == <<LBRACE>> \o MembersText(obj) \o <<RBRACE>>
RECURSIVE ElementsText(_)
ElementsText(objs) ==
    IF objs = <<>> THEN <<>>
    ELSE ObjectText(Head(objs))
         \o (IF Tail(objs) = <<>> THEN <<>> ELSE <<COMMA>> \o ElementsText(Tail(objs)))
to_vec(objs) == <<LBRACKET>> \o ElementsText(objs) \o <<RBRACKET>>

\* serde_json::from_slice, for a text that is an array of objects of scalars: what
\* was parsed, and the position after it
Parsed(v, next) == [ok |-> TRUE, v |-> v, next |-> next]
NoParse == [ok |-> FALSE, v |-> <<>>, next |-> 0]
At(bs, i, b) == i <= Len(bs) /\ bs[i] = b

RECURSIVE ParseChars(_, _, _)
ParseChars(bs, i, acc) ==
    IF i > Len(bs) THEN NoParse
    ELSE IF bs[i] = QUOTE THEN Parsed(acc, i + 1)
    ELSE IF bs[i] = BACKSLASH
         THEN IF i + 1 <= Len(bs) /\ bs[i + 1] \in {QUOTE, BACKSLASH}
              THEN ParseChars(bs, i + 2, Append(acc, bs[i + 1]))
              ELSE NoParse
    ELSE ParseChars(bs, i + 1, Append(acc, bs[i]))
ParseString(bs, i) == IF At(bs, i, QUOTE) THEN ParseChars(bs, i + 1, <<>>) ELSE NoParse

ParseValue(bs, i) ==
    IF At(bs, i, QUOTE)
    THEN LET s == ParseString(bs, i) IN IF s.ok THEN Parsed(JStr(s.v), s.next) ELSE NoParse
    ELSE IF i <= Len(bs) /\ bs[i] \in DIGIT0..(DIGIT0 + 9) THEN Parsed(JNum(bs[i] - DIGIT0), i + 1)
    ELSE IF i + 3 <= Len(bs) /\ SubSeq(bs, i, i + 3) = NullText THEN Parsed(JNull, i + 4)
    ELSE NoParse

RECURSIVE ParseMembers(_, _, _)
ParseMembers(bs, i, acc) ==
    LET k == ParseString(bs, i)
        v == ParseValue(bs, k.next + 1)
    IN  IF ~k.ok \/ ~At(bs, k.next, COLON) THEN NoParse
        ELSE IF ~v.ok THEN NoParse
        ELSE IF At(bs, v.next, RBRACE) THEN Parsed(Append(acc, [k |-> k.v, v |-> v.v]), v.next + 1)
        ELSE IF At(bs, v.next, COMMA)
             THEN ParseMembers(bs, v.next + 1, Append(acc, [k |-> k.v, v |-> v.v]))
        ELSE NoParse
ParseObject(bs, i) ==
    IF ~At(bs, i, LBRACE) THEN NoParse
    ELSE IF At(bs, i + 1, RBRACE) THEN Parsed(<<>>, i + 2)
    ELSE ParseMembers(bs, i + 1, <<>>)

RECURSIVE ParseElements(_, _, _)
ParseElements(bs, i, acc) ==
    LET o == ParseObject(bs, i)
    IN  IF ~o.ok THEN NoParse
        ELSE IF At(bs, o.next, RBRACKET) THEN Parsed(Append(acc, o.v), o.next + 1)
        ELSE IF At(bs, o.next, COMMA) THEN ParseElements(bs, o.next + 1, Append(acc, o.v))
        ELSE NoParse
ParseArray(bs, i) ==
    IF ~At(bs, i, LBRACKET) THEN NoParse
    ELSE IF At(bs, i + 1, RBRACKET) THEN Parsed(<<>>, i + 2)
    ELSE ParseElements(bs, i + 1, <<>>)
from_slice(bs) ==
    LET a == ParseArray(bs, 1)
    IN  IF a.ok /\ a.next = Len(bs) + 1 THEN a ELSE NoParse

\* json.get(name) on a parsed object: the value of the last member of that name
RECURSIVE JsonGet(_, _, _)
JsonGet(obj, name, found) ==
    IF obj = <<>> THEN found
    ELSE JsonGet(Tail(obj), name, IF Head(obj).k = name THEN <<Head(obj).v>> ELSE found)

\* pg_query once the SQL text was read: what it returns and what it leaves in the
\* guest's memory.  up: the backend answers the statement.
QueryResult(r, m) == [ret |-> r, mem |-> m]
GuestPgQuery(mem, rows, sel, out_ptr, out_len, up) ==
    LET payload == to_vec(query_json(rows, sel))
    IN  IF out_len < 0 THEN QueryResult(-3, mem)
        ELSE IF ~up THEN QueryResult(-1, mem)
        ELSE IF JsonAsI32(Len(payload)) > out_len THEN QueryResult(-2, mem)
        ELSE IF ~(out_ptr >= 0 /\ out_ptr + Len(payload) <= Len(mem)) THEN QueryResult(-3, mem)
        ELSE QueryResult(JsonAsI32(Len(payload)), WriteBytes(mem, out_ptr, payload))

\* the guest has run no statement yet
NoQuery == [sel |-> <<>>, out_ptr |-> 0, out_len |-> 0, ret |-> 0, done |-> FALSE]

\* pg_exec of an INSERT of one TEXT value: the table gains a row with the next id
GuestInsert ==
    /\ ~qcall.done
    /\ Len(qtable) < MaxRows
    /\ \E v \in TextVals \cup {NoText} :
          qtable' = Append(qtable, TableRow(Len(qtable) + 1, v))
    /\ UNCHANGED <<qcall, qmem>>
    /\ UNCHANGED <<poolVars, taskVars, updVars, reloadVars, hostVars, kvVars, ioVars>>

\* pg_query of a SELECT over the table, in the order of the ids
GuestQuery ==
    /\ ~qcall.done
    /\ \E sel \in SelectLists, out_ptr \in {0, 1}, out_len \in {-1, 0, JsonI32Max}, up \in BOOLEAN :
          LET r == GuestPgQuery(qmem, qtable, sel, out_ptr, out_len, up)
          IN  /\ qcall' = [sel |-> sel, out_ptr |-> out_ptr, out_len |-> out_len,
                           ret |-> r.ret, done |-> TRUE]
              /\ qmem' = r.mem
    /\ UNCHANGED qtable
    /\ UNCHANGED <<poolVars, taskVars, updVars, reloadVars, hostVars, kvVars, ioVars>>

\* ------------------------------------------ pool.rs: what a run writes and returns
\* The I/O context a store carries as its data: the value of NAME (NoName: unset)
\* and the pipe stdout and stderr go to (NoPipe: the output is discarded).
NoName == 0
NoPipe == 0
RequestNames == {1, 2}

\* WasiCtx::builder().build_p1(): no environment, output that goes nowhere
DefaultCtx == [name |-> NoName, pipe |-> NoPipe]

\* WasiCtxBuilder::new().stdout(stdout_pipe.clone()).stderr(stderr_pipe.clone())
\* .env("NAME", &name).build_p1(), with the pipes this run created
RequestCtx(name, pipe) == [name |-> name, pipe |-> pipe]

\* Store::new(&self.engine, WasiCtx::builder().build_p1()) and its instantiation
\* count.  The engine consumes fuel, and a new store has none.
NoIoStore == [ctx |-> DefaultCtx, count |-> -1, fuel |-> FALSE]
FreshIoStore == [ctx |-> DefaultCtx, count |-> 0, fuel |-> FALSE]

\* *store.data_mut() = wasi: the context of the request takes the place of the one
\* the store carried
\* (faulty variant: the store keeps the context it came with)
KeptCtx(old, new) == old
AttachedCtx(old, new) == new

\* what calling `_start` can answer in store s: without fuel the call traps at once
StartOutcomesIn(s) == IF s.fuel THEN StartOutcomes ELSE StartOutcomes \ {"ok"}

\* what the guest writes to its stdout: it comes from the module and from the
\* NAME the guest finds in its environment
GuestOutput(m, ctx) == <<[mod |-> m, name |-> ctx.name]>>

\* stdout_pipe.contents() after the call: what was written to this run's pipe
PipeContents(m, ctx, pipe) == IF ctx.pipe = pipe THEN GuestOutput(m, ctx) ELSE <<>>

\* what the standalone runtime prints for module m under NAME = name
Standalone(m, name) == GuestOutput(m, RequestCtx(name, NoPipe))

\* what linker.instantiate_async answers to one call: an instance, the error whose
\* message holds "instance count too high", or another error
InstAnswers == {"ok", "count", "other"}

\* if msg.contains("instance count too high")
\* (faulty variant: every failure is retried)
RetriesOnAny(a) == a # "ok"
RetriesOn(a) == a = "count"

NoRun == [name |-> NoName, mod |-> -1, first |-> "none", second |-> "none", tries |-> 0,
          count0 |-> 0, ok |-> FALSE, out |-> <<>>, ctx |-> DefaultCtx]

\* One run(name) from lease() to the drop of the Lease, on a pool whose free list
\* holds at most one store: the store is taken or built, recycled at the limit,
\* given the context of this request and fuel, instantiated (a1 answers the first
\* call, a2 the retry if there is one), `_start` is called, and the pipes are read.
IoRun ==
    /\ ioruns < MaxRuns
    /\ \E name \in RequestNames, a1 \in InstAnswers, a2 \in InstAnswers, s \in StartOutcomes :
          LET leased == IF iostore = NoIoStore THEN FreshIoStore ELSE iostore
              recycled == IF NeedsRecycle(leased.count) THEN FreshIoStore ELSE leased
              pipe == ioruns + 1
              attached == [recycled EXCEPT !.ctx = AttachedCtx(@, RequestCtx(name, pipe)),
                                           !.fuel = TRUE]
              retried == a1 # "ok" /\ RetriesOn(a1)
              used == IF retried THEN FreshIoStore ELSE attached
              started == a1 = "ok" \/ (retried /\ a2 = "ok")
              after == IF started THEN [used EXCEPT !.count = SaturatingInc(@)] ELSE used
          IN  /\ ~retried => a2 = "ok"
              /\ s \in StartOutcomesIn(used)
              /\ ~started => s = "trap"
              /\ iostore' = after
              /\ iolast' = [name |-> name, mod |-> iomod,
                            first |-> a1, second |-> IF retried THEN a2 ELSE "none",
                            tries |-> IF retried THEN 2 ELSE 1,
                            count0 |-> recycled.count,
                            ok |-> started /\ s = "ok",
                            out |-> IF started /\ s = "ok"
                                    THEN PipeContents(iomod, used.ctx, pipe) ELSE <<>>,
                            ctx |-> IF started THEN used.ctx ELSE DefaultCtx]
    /\ ioruns' = ioruns + 1
    /\ UNCHANGED iomod
    /\ UNCHANGED <<poolVars, taskVars, updVars, reloadVars, hostVars, kvVars, queryVars>>

\* update_module between two runs: the module changes, the free list is cleared
IoUpdate ==
    /\ iomod < MaxUpdates
    /\ iomod' = iomod + 1
    /\ iostore' = NoIoStore
    /\ UNCHANGED <<ioruns, iolast>>
    /\ UNCHANGED <<poolVars, taskVars, updVars, reloadVars, hostVars, kvVars, queryVars>>

\* ------------------------------------------------------------ initial states
\* the watch target of a service that is not reloading: one module that compiles
ServedDir ==
    [readable |-> TRUE,
     entries |-> <<[wasm |-> TRUE, meta |-> "ok", mtime |-> UNIX_EPOCH, compiles |-> TRUE]>>]

\* start_wasm_watcher has just spawned its thread and its task
WatcherInit ==
    /\ wpc = "create"
    /\ signals = 0
    /\ rpc = "recv"
    /\ sent = 0
    /\ attempts = 0
    /\ oks = 0
    /\ burst = -1
    /\ seen = 0

\* no host call made yet
HostInit ==
    /\ hcall = NoCall
    /\ hout = NoOutcome
    /\ hio = FALSE

\* no request has been served: the free list is empty
IoIdle ==
    /\ iomod = InitialModule
    /\ iostore = NoIoStore
    /\ ioruns = 0
    /\ iolast = NoRun

\* no guest has queried the SQL backend: an empty table, a zeroed guest memory
QueryIdle ==
    /\ qtable = <<>>
    /\ qcall = NoQuery
    /\ qmem = [i \in 1..JsonMemLen |-> 0]

\* no guest has touched the backend: an empty keyspace, an empty guest memory
KvIdle ==
    /\ kv = [k \in KvKeys |-> Absent]
    /\ kin = [key |-> <<>>, val |-> <<>>, outLen |-> 0]
    /\ gmem = GuestMemory(<<>>, <<>>)
    /\ krets = <<>>
    /\ kfail = FALSE

Init ==
    /\ PoolInit
    /\ WatcherInit
    /\ HostInit
    /\ KvIdle
    /\ QueryIdle
    /\ IoIdle
    /\ dir = ServedDir
    /\ loaded = load_best_module(dir)

\* ------------------------------------------------------------ specifications
TaskStep(t) ==
    \/ Acquire(t) \/ Sample(t) \/ Pop(t) \/ ReadModule(t) \/ Instantiate(t)
    \/ CallStart(t) \/ HoldLease(t) \/ DropLease(t) \/ ReleasePermit(t)

UpdateStep(u) ==
    \/ CallUpdate(u) \/ WriteModule(u) \/ BumpGeneration(u) \/ ClearFree(u)
    \/ SkipReload(u)

Next ==
    \/ \E t \in Tasks : TaskStep(t)
    \/ \E u \in Updaters : UpdateStep(u)

Spec == Init /\ [][Next]_vars

\* The service as main() starts it: the request handlers and the one reload task of
\* start_wasm_watcher, the only caller of update_module.  Every run() task is polled
\* again whenever it can make progress: tokio schedules every ready task, and its
\* Semaphore hands permits to waiters in arrival order.
LiveNext ==
    \/ \E t \in Tasks : TaskStep(t)
    \/ UpdateStep(ReloadTask)
LiveSpec == Init /\ [][LiveNext]_vars /\ \A t \in Tasks : WF_vars(TaskStep(t))

\* One client that sends request after request, with no reload: the same store is
\* leased again and again.
Client == 1
RecycleNext == TaskStep(Client) \/ Rerun(Client)
RecycleSpec == Init /\ [][RecycleNext]_vars

\* Requests that overlap one reload, and then a client that sends request after
\* request: the next one when the reload is over, no other request is in flight and
\* the requests so far succeeded.  Every run() task and the reload task inside
\* update_module are tokio tasks that are polled again whenever they can go on;
\* nothing is assumed of when a reload is started.
OneReload == Written + Pending = 0 /\ CallUpdate(ReloadTask)
UpdateBody ==
    \/ WriteModule(ReloadTask) \/ BumpGeneration(ReloadTask) \/ ClearFree(ReloadTask)
NextRequest ==
    /\ upc[ReloadTask] = "idle"
    /\ Written = 1
    /\ \A t \in Tasks \ {Client} : pc[t] = "done"
    /\ \A t \in Tasks : result[t] = "ok"
    /\ Rerun(Client)
StaleInit == Init /\ max_concurrency = MaxK
StaleNext ==
    \/ \E t \in Tasks : TaskStep(t)
    \/ NextRequest
    \/ OneReload
    \/ UpdateBody
StaleSpec ==
    /\ StaleInit
    /\ [][StaleNext]_vars
    /\ \A t \in Tasks : WF_vars(TaskStep(t))
    /\ WF_vars(NextRequest)
    /\ WF_vars(UpdateBody)

\* load_best_module on every watch target of up to MaxFiles entries, as the startup
\* of the service calls it.
LoadInit ==
    /\ PoolInit
    /\ WatcherInit
    /\ HostInit
    /\ KvIdle
    /\ QueryIdle
    /\ IoIdle
    /\ dir \in Dirs
    /\ loaded = NoLoad
LoadNext == StartupLoad
LoadSpec == LoadInit /\ [][LoadNext]_vars

\* The reload pipeline: the watcher thread, the filesystem, the reload task with its
\* update_module call, and one request handler.  The service started, so the startup
\* load found a module.
ReloadInit ==
    /\ PoolInit
    /\ WatcherInit
    /\ HostInit
    /\ KvIdle
    /\ QueryIdle
    /\ IoIdle
    /\ dir \in {d \in WatchedDirs : load_best_module(d).ok}
    /\ loaded = load_best_module(dir)
ReloadNext ==
    \/ WatcherCreated \/ WatcherCreateFailed \/ WatchRegistered \/ WatchFailed
    \/ \E d \in WatchedDirs : FsEvent(d)
    \/ \E d \in WatchedDirs : FsChangeUnwatched(d)
    \/ RecvSignal \/ RecvClosed \/ WakeAndDrain \/ Load
    \/ WriteModule(ReloadTask) \/ BumpGeneration(ReloadTask) \/ ClearFree(ReloadTask)
    \/ TaskStep(Client)
ReloadSpec == ReloadInit /\ [][ReloadNext]_vars

\* The reload loop alone, with its scheduling: the reload task is a spawned tokio
\* task, so a step it can take (recv with a queued signal, the end of the sleep, the
\* load, a step of its update_module) is taken in the end.  Nothing is assumed of
\* the watcher thread or of the filesystem.
ReloadTaskStep ==
    \/ RecvSignal \/ WakeAndDrain \/ Load
    \/ WriteModule(ReloadTask) \/ BumpGeneration(ReloadTask) \/ ClearFree(ReloadTask)
ReloadLoopNext ==
    \/ WatcherCreated \/ WatcherCreateFailed \/ WatchRegistered \/ WatchFailed
    \/ \E d \in WatchedDirs : FsEvent(d)
    \/ \E d \in WatchedDirs : FsChangeUnwatched(d)
    \/ RecvClosed
    \/ ReloadTaskStep
ReloadLiveSpec == ReloadInit /\ [][ReloadLoopNext]_vars /\ WF_vars(ReloadTaskStep)

\* The host bridge: a guest makes one host call, with any arguments, against any
\* memory and any answer of the adapter.
HostNext ==
    \/ PgExecCall \/ PgQueryCall
    \/ RedisGetCall \/ RedisSetCall \/ RedisSetExCall \/ RedisExistsCall \/ RedisDelCall
HostSpec == Init /\ [][HostNext]_vars

\* The round trip of a guest on the KV backend: a keyspace that holds anything, a
\* guest that wrote any key and value into its memory, and a backend that may fail
\* any command.
KvInit ==
    /\ PoolInit
    /\ WatcherInit
    /\ HostInit
    /\ dir = ServedDir
    /\ loaded = load_best_module(dir)
    /\ kv \in [KvKeys -> {Absent} \cup {Held(v) : v \in {<<>>, <<98>>}}]
    /\ kin \in [key : KeyBytes, val : ValBytes, outLen : 0..BufCap]
    /\ gmem = GuestMemory(kin.key, kin.val)
    /\ krets = <<>>
    /\ kfail = FALSE
    /\ QueryIdle
    /\ IoIdle
KvNext == GuestSet \/ GuestGet \/ GuestDel \/ HostExists
KvSpec == KvInit /\ [][KvNext]_vars

\* A guest on the SQL backend: INSERTs into an empty table, then one SELECT whose
\* JSON text pg_query writes into the guest's memory.
QueryNext == GuestInsert \/ GuestQuery
QueryInit == Init /\ max_concurrency = MaxK
QuerySpec == QueryInit /\ [][QueryNext]_vars

\* Requests served one after the other, with reloads in between.
IoNext == IoRun \/ IoUpdate
IoSpec == Init /\ [][IoNext]_vars

\* ---------------------------------------------------------------- properties
\* the permits the semaphore was created with: max_concurrency.max(1)
TotalPermits == Max(max_concurrency, 1)

\* callers that hold a Lease (built by lease(), its permit not yet given back)
LeasePcs == {"leased", "inst", "call", "drop", "release"}
LiveLeases == {t \in Tasks : pc[t] \in LeasePcs}
\* callers whose Lease holds a store
StorePcs == {"leased", "inst", "call", "drop"}
ErrorResults == {"instantiate_error", "retry_error", "start_error", "trap"}

\* C1 as stated: the number of live Leases never exceeds the configured
\* max_concurrency, for every configured value.
C1_LiveLeasesAtMostConfigured == Cardinality(LiveLeases) <= max_concurrency

\* C1 as amended: the number of live Leases never exceeds max(max_concurrency, 1),
\* the number of permits the semaphore is created with.
C1_LiveLeasesAtMostPermits == Cardinality(LiveLeases) <= TotalPermits

\* the limit binds: every permit is out and another caller is waiting for one
C1_Witness ==
    /\ max_concurrency >= 1
    /\ Cardinality(LiveLeases) = max_concurrency
    /\ \E w \in Tasks : pc[w] = "start"

\* C2 as stated: the module a run instantiates is the one published by the same
\* update_module call (or by WasmPool::new) as the generation its Lease carries.
C2_NoTearing ==
    \A t \in Tasks : pc[t] = "inst" => pubGen[modRead[t]] = lgen[t]

\* C3 as stated: when lease() takes a store from the free list and hands it out, the
\* store's tag equals the pool's generation counter at that moment.
C3_ReusedTagIsCurrent ==
    [][\A t \in Tasks :
          (/\ pc[t] = "sampled"
           /\ pc'[t] = "leased"
           /\ free # <<>>
           /\ lstore'[t] = Top(free).store)
          => Top(free).generation = generation]_vars

\* C4 as stated: a store that has instantiated one module is never used to
\* instantiate another one.
C4_OneModulePerStore ==
    [][\A t \in Tasks :
          (/\ pc[t] = "inst"
           /\ pc'[t] = "call"
           /\ lstore'[t].id = lstore[t].id)
          => lstore[t].mod \in {-1, lstore'[t].mod}]_vars

\* C5: a run whose lease() returned after update_module(M) returned instantiates M or
\* a module written to the pointer after M.
C5_RunSeesReturnedUpdate ==
    \A t \in Tasks : pc[t] = "inst" => modRead[t] >= floor[t]

\* a run that leased after the first update returned and reads the second module
C5_Witness ==
    \E t \in Tasks : pc[t] = "inst" /\ floor[t] = 1 /\ modRead[t] = 2

\* C6: every store is in one place only: no two Leases hold the same store, no store
\* is twice in the free list, none is both leased and free; a Lease holds a store
\* from lease() until its drop.
C6_StoresExclusive ==
    /\ \A t \in Tasks : (pc[t] \in StorePcs) <=> (lstore[t] # NoStore)
    /\ \A t, w \in Tasks :
          t # w /\ lstore[t] # NoStore => lstore[t].id # lstore[w].id
    /\ \A i, j \in 1..Len(free) : i # j => free[i].store.id # free[j].store.id
    /\ \A t \in Tasks : \A i \in 1..Len(free) :
          free[i].store # NoStore /\ free[i].store.id # lstore[t].id

\* a store passes from one Lease to the next: the Lease that pushed it is still being
\* dropped when the other caller's lease() takes it from the free list
C6_Witness ==
    \E t, w \in Tasks :
        /\ t # w
        /\ pc[w] = "release"
        /\ pc[t] = "leased" /\ lstore[t].count >= 1

\* C7: whatever run() returns, its Lease is dropped: the store goes onto the free
\* list and the permit back to the semaphore, so when every run has returned all
\* the permits are available.
C7_LeaseAlwaysReturned ==
    /\ [](/\ permits + Cardinality({t \in Tasks : permit[t]}) = TotalPermits
          /\ \A t \in Tasks : pc[t] = "done" => ~permit[t] /\ lstore[t] = NoStore
          /\ (\A t \in Tasks : pc[t] = "done") => permits = TotalPermits)
    /\ [][\A t \in Tasks :
             pc[t] = "drop" /\ pc'[t] # "drop"
             => /\ pc'[t] = "release"
                /\ free' = Append(free, PooledStore(lgen[t], linst[t], lstore[t]))]_vars

\* every run has returned, each with a different failure, and all permits are back
C7_Witness ==
    /\ \A t \in Tasks : pc[t] = "done" /\ result[t] \in ErrorResults
    /\ \E t, w \in Tasks : result[t] = "trap" /\ result[w] = "retry_error"
    /\ permits = TotalPermits

\* C8: the count kept with a store is the number of instantiations that succeeded in
\* it, it never exceeds MAX_STORE_INSTANTIATIONS, and a run whose Lease arrives with
\* the count at the limit swaps in a fresh store with count 0 before instantiating.
C8_CountTracksAndIsBounded ==
    /\ [](/\ \A t \in Tasks :
                lstore[t] # NoStore
                => linst[t] = lstore[t].count /\ linst[t] <= MAX_STORE_INSTANTIATIONS
          /\ \A i \in 1..Len(free) :
                /\ free[i].instantiations = free[i].store.count
                /\ free[i].instantiations <= MAX_STORE_INSTANTIATIONS)
    /\ [][\A t \in Tasks :
             pc[t] = "leased" /\ pc'[t] = "inst"
             /\ linst[t] >= MAX_STORE_INSTANTIATIONS
             => /\ lstore'[t].id # lstore[t].id
                /\ lstore'[t].count = 0
                /\ linst'[t] = 0]_vars

\* the 1001st run: its Lease arrives with the store of 1000 instantiations
C8_Witness ==
    \E t \in Tasks :
        /\ pc[t] = "leased"
        /\ linst[t] = MAX_STORE_INSTANTIATIONS
        /\ lstore[t].count = MAX_STORE_INSTANTIATIONS

\* C9: under fair scheduling every run() acquires a lease and returns.
C9_EveryRunCompletes == <>(\A t \in Tasks : pc[t] = "done")

\* more callers than permits, an update has happened, and every run has returned
C9_Witness ==
    /\ TotalPermits < NumTasks
    /\ generation >= 1
    /\ \A t \in Tasks : pc[t] = "done" /\ result[t] # "none"

\* C10: the generation changes only in the fetch_add of an update_module call, by
\* exactly one, so it counts the calls that have got that far; nothing else changes it.
C10_GenerationCountsUpdates ==
    /\ [](generation + Cardinality({u \in Updaters : upc[u] = "inc"})
             = InitialGeneration + Written)
    /\ [][\/ generation' = generation
          \/ /\ generation' = generation + 1
             /\ \E u \in Updaters : upc[u] = "inc" /\ upc'[u] = "clear"]_vars

\* two update_module calls overlap, both past their fetch_add
C10_Witness ==
    /\ generation = 2
    /\ \E u, v \in Updaters : u # v /\ upc[u] = "clear" /\ upc[v] = "clear"

\* C11: dropping a Lease pushes exactly one entry onto the free list, tagged with the
\* generation the Lease sampled at acquisition (not the pool's generation at drop
\* time) and carrying the Lease's instantiation count, and then gives back exactly
\* one permit; the drop changes neither the active module nor the generation counter.
C11_DropPushesOneEntryAndOnePermit ==
    [][\A t \in Tasks :
          /\ pc[t] = "drop" /\ pc'[t] # "drop"
             => /\ Len(free') = Len(free) + 1
                /\ SubSeq(free', 1, Len(free)) = free
                /\ Top(free').generation = lgen[t]
                /\ Top(free').instantiations = linst[t]
                /\ Top(free').store = lstore[t]
                /\ permits' = permits /\ permit'[t]
                /\ module' = module /\ generation' = generation
          /\ pc[t] = "release" /\ pc'[t] # "release"
             => /\ permits' = permits + 1 /\ ~permit'[t]
                /\ free' = free
                /\ module' = module /\ generation' = generation]_vars

\* a Lease taken before an update has been dropped after it: the entry on top of the
\* free list carries the older generation and a count of at least one
C11_Witness ==
    \E t \in Tasks :
        /\ pc[t] = "release"
        /\ free # <<>>
        /\ Top(free).generation < generation
        /\ Top(free).instantiations >= 1

\* the entries of a watch target that list_wasm_candidates returns
Candidates(d) == {i \in 1..Len(d.entries) : d.entries[i].wasm}

\* C12: when a reload attempt finds no candidate that compiles, or cannot list the
\* watch target, update_module is not called: the attempt leaves the active module,
\* the generation and the free list as they were.  update_module has been called once
\* per successful load and never more, so while every attempt has failed each run
\* executes the module the service started with.
C12_FailedReloadChangesNothing ==
    /\ [][rpc = "load" /\ rpc' # "load" /\ ~load_best_module(dir).ok
            => /\ module' = module /\ generation' = generation /\ free' = free
               /\ upc' = upc /\ upc[ReloadTask] = "idle"]_vars
    /\ [](/\ (module - InitialModule) + (IF upc[ReloadTask] = "write" THEN 1 ELSE 0) = oks
          /\ oks = 0 => /\ module = InitialModule /\ generation = InitialGeneration
                        /\ \A t \in Tasks : modRead[t] \in {-1, InitialModule})

\* the only reload attempt so far found a candidate that does not compile, and a run
\* is instantiating the module the service started with
C12_Witness ==
    /\ attempts >= 1 /\ oks = 0
    /\ rpc = "recv" /\ ~loaded.ok
    /\ \E i \in Candidates(dir) : ~dir.entries[i].compiles
    /\ pc[Client] = "inst" /\ modRead[Client] = InitialModule

\* C13: for a watch target whose candidates all have a readable modification time,
\* load_best_module returns the module of a candidate that compiles and that no
\* compiling candidate is newer than, whatever newer candidates fail to compile; it
\* returns an error exactly when no candidate compiles.
C13_NewestCompilingIsLoaded ==
    (/\ loaded # NoLoad
     /\ \A i \in Candidates(dir) : dir.entries[i].meta = "ok")
    => LET compiling == {i \in Candidates(dir) : dir.entries[i].compiles}
       IN  /\ loaded.ok <=> compiling # {}
           /\ loaded.ok => /\ loaded.file \in compiling
                           /\ \A j \in compiling :
                                  dir.entries[j].mtime <= dir.entries[loaded.file].mtime

\* the newest candidate does not compile, and of the two older ones that do, the
\* newer is loaded
C13_Witness ==
    /\ loaded.ok
    /\ \A i \in Candidates(dir) : dir.entries[i].meta = "ok"
    /\ \E i, j \in Candidates(dir) :
          /\ ~dir.entries[i].compiles
          /\ dir.entries[i].mtime > dir.entries[loaded.file].mtime
          /\ dir.entries[j].compiles
          /\ dir.entries[j].mtime < dir.entries[loaded.file].mtime

\* C14: the reload task takes every signal queued by the end of the debounce sleep
\* before it loads, and each such round calls load_best_module once; so when the n
\* signals sent so far were all queued by the end of the first sleep, there has been
\* one reload attempt, hence at most one update_module call, not n.
C14_BurstMakesOneAttempt ==
    /\ [][/\ rpc = "sleep" /\ rpc' # "sleep" => rpc' = "load" /\ signals' = 0
          /\ attempts' # attempts => rpc = "load" /\ attempts' = attempts + 1
          /\ rpc = "load" /\ rpc' # "load" => rpc' = "recv" /\ attempts' = attempts + 1]_vars
    /\ [](burst # -1 /\ sent = burst => attempts <= 1 /\ oks <= attempts)

\* a burst of MaxEvents signals, all taken by the first round, and its one attempt done
C14_Witness ==
    /\ burst = MaxEvents /\ sent = burst
    /\ rpc = "recv" /\ signals = 0
    /\ attempts = 1

\* C15: once creating the watcher or registering the watch root has failed, no signal
\* is ever sent, the reload task makes no attempt and never calls update_module (all
\* it can do is end, the channel being closed), and runs execute the module the
\* service started with; the reload task ends for no other reason.
C15_FailedWatcherNeverReloads ==
    /\ wpc = "failed"
       => /\ sent = 0 /\ signals = 0 /\ attempts = 0
          /\ rpc \in {"recv", "ended"}
          /\ upc[ReloadTask] = "idle"
          /\ module = InitialModule /\ generation = InitialGeneration
          /\ \A t \in Tasks : modRead[t] \in {-1, InitialModule}
    /\ rpc = "ended" => wpc = "failed"

\* the watcher failed, the reload task has ended, the watch target has changed to
\* something that does not load, and a run is instantiating the initial module
C15_Witness ==
    /\ wpc = "failed" /\ rpc = "ended"
    /\ ~load_best_module(dir).ok
    /\ pc[Client] = "inst" /\ modRead[Client] = InitialModule

\* the host functions that take an output buffer, and those that take a value
BufferFns == {"pg_query", "redis_get"}
ValueFns == {"redis_set", "redis_set_ex"}

\* a pointer or length argument of the call is negative
NegativeArg(c) ==
    \/ c.ptr < 0 \/ c.len < 0
    \/ c.fn \in BufferFns \cup ValueFns /\ (c.ptr2 < 0 \/ c.len2 < 0)

\* the code each host function returns for an argument error
ArgErrorCode(f) ==
    CASE f = "pg_exec" -> -2
      [] f \in BufferFns -> -3
      [] f \in ValueFns -> -2
      [] OTHER -> -1

\* the key or SQL text of the call can be read and is UTF-8
TextOk(c) == Readable(c.mem, c.ptr, c.len) /\ ValidUtf8(c)

\* the call cannot succeed: an argument is unusable, the adapter has no result, or
\* the result does not fit the buffer the guest offers
Failed(c) ==
    \/ ~TextOk(c)
    \/ c.fn \in ValueFns /\ ~Readable(c.mem, c.ptr2, c.len2)
    \/ c.fn = "redis_set_ex" /\ c.ttl < 0
    \/ c.backend.kind # "ok"
    \/ c.fn \in BufferFns
       /\ (c.len2 < 0 \/ c.backend.n > c.len2 \/ ~Writable(c.mem, c.ptr2, c.backend.n))

\* C16: every host call returns an i32 and never traps; a call that cannot succeed
\* returns a negative number, so a return that is not negative denotes success.
C16_FailuresAreNegative ==
    hcall # NoCall
    => /\ hout.ret \in I32Min..I32Max
       /\ ~hout.trap
       /\ Failed(hcall) => hout.ret < 0

\* C17: pg_query and redis_get - whenever the payload or value is longer than
\* out_len (out_len >= 0), whatever its length, the call returns -2 and writes nothing.
C17_TooSmallReturnsMinus2 ==
    (/\ hcall.fn \in BufferFns
     /\ hcall.len2 >= 0 /\ TextOk(hcall)
     /\ hcall.backend.kind = "ok"
     /\ hcall.backend.n > hcall.len2)
    => hout.ret = -2 /\ hout.written = {}

\* C18: a host call with a negative pointer or length argument returns the function's
\* argument-error code, and no guest memory is read or written during the call.
C18_NegativeArgRejectedUntouched ==
    (hcall # NoCall /\ NegativeArg(hcall))
    => /\ hout.ret = ArgErrorCode(hcall.fn)
       /\ hout.read = {} /\ hout.written = {}

\* C19: pg_exec returns -2, without calling the adapter, when the SQL bytes cannot be
\* read or are not UTF-8; -1 when the adapter fails; otherwise the rows affected, or
\* the largest i32 when they are more than that.
C19_PgExecCodes ==
    hcall.fn = "pg_exec"
    => /\ ~TextOk(hcall) => hout.ret = -2 /\ ~hout.called
       /\ TextOk(hcall) /\ hcall.backend.kind # "ok" => hout.ret = -1
       /\ TextOk(hcall) /\ hcall.backend.kind = "ok"
          => hout.ret = (IF hcall.backend.n < I32Max THEN hcall.backend.n ELSE I32Max)

\* a statement that affected more rows than an i32 holds has returned the largest i32
C19_Witness ==
    /\ hcall.fn = "pg_exec"
    /\ TextOk(hcall) /\ hcall.len > 0
    /\ hcall.backend.kind = "ok" /\ hcall.backend.n > I32Max
    /\ hout.ret = I32Max /\ hout.called

\* C20: pg_query returns -3 only for an argument error (negative out_len, SQL that
\* cannot be read or is not UTF-8, out_ptr that cannot be written), -1 only for an
\* adapter or serialization error, -2 only when the payload is longer than out_len,
\* and otherwise the payload length n >= 0 after writing exactly the n bytes at
\* out_ptr; whenever the return is negative, guest memory is unchanged.
C20_PgQueryCodes ==
    hcall.fn = "pg_query"
    => /\ hout.ret \in {-3, -2, -1} \/ hout.ret >= 0
       /\ hout.ret = -3
          => \/ hcall.len2 < 0 \/ ~TextOk(hcall)
             \/ ~Writable(hcall.mem, hcall.ptr2, hcall.backend.n)
       /\ hout.ret = -1 => hcall.backend.kind # "ok"
       /\ hout.ret = -2 => hcall.backend.kind = "ok" /\ hcall.backend.n > hcall.len2
       /\ hout.ret >= 0
          => /\ hcall.backend.kind = "ok" /\ hout.ret = hcall.backend.n
             /\ hout.written = Bytes(hcall.ptr2, hcall.backend.n)
       /\ hout.ret < 0 => hout.written = {}

\* C21: redis_get returns -3 only for an argument error (negative out_len, key that
\* cannot be read or is not UTF-8, out_ptr that cannot be written), -4 only when the
\* adapter fails, -1 only when the key is absent, -2 only when the value is longer
\* than out_len, and otherwise the value length n >= 0 after writing exactly the n
\* bytes at out_ptr; so -1 is never returned for a failure or for a key that is there.
C21_RedisGetCodes ==
    hcall.fn = "redis_get"
    => /\ hout.ret \in {-4, -3, -2, -1} \/ hout.ret >= 0
       /\ hout.ret = -3
          => \/ hcall.len2 < 0 \/ ~TextOk(hcall)
             \/ ~Writable(hcall.mem, hcall.ptr2, hcall.backend.n)
       /\ hout.ret = -4 => hcall.backend.kind \in {"disabled", "error"}
       /\ hout.ret = -1 => hcall.backend.kind = "absent"
       /\ hout.ret = -2 => hcall.backend.kind = "ok" /\ hcall.backend.n > hcall.len2
       /\ hout.ret >= 0
          => /\ hcall.backend.kind = "ok" /\ hout.ret = hcall.backend.n
             /\ hout.written = Bytes(hcall.ptr2, hcall.backend.n)

\* C22: redis_set and redis_set_ex return -2 when the key or the value cannot be read
\* or the key is not UTF-8, -1 when the adapter fails and 0 when it succeeds;
\* redis_set_ex returns -2 for every negative ttl_s, having read no guest memory and
\* called no adapter operation.
C22_RedisSetCodes ==
    hcall.fn \in ValueFns
    => LET badTtl == hcall.fn = "redis_set_ex" /\ hcall.ttl < 0
           argsOk == TextOk(hcall) /\ Readable(hcall.mem, hcall.ptr2, hcall.len2)
       IN  /\ badTtl => hout.ret = -2 /\ hout.read = {} /\ ~hout.called
           /\ ~argsOk => hout.ret = -2 /\ ~hout.called
           /\ ~badTtl /\ argsOk /\ hcall.backend.kind # "ok" => hout.ret = -1
           /\ ~badTtl /\ argsOk /\ hcall.backend.kind = "ok" => hout.ret = 0
           /\ hout.written = {}

\* redis_set_ex with a readable key and value and a willing adapter, refused for its
\* negative ttl_s alone
C22_Witness ==
    /\ hcall.fn = "redis_set_ex" /\ hcall.ttl < 0
    /\ TextOk(hcall) /\ hcall.len > 0
    /\ Readable(hcall.mem, hcall.ptr2, hcall.len2) /\ hcall.len2 > 0
    /\ hcall.backend.kind = "ok"
    /\ hout.ret = -2 /\ hout.read = {} /\ ~hout.called

\* the code a host function returns when its adapter operation fails
BackendErrorCode(f) == IF f = "redis_get" THEN -4 ELSE -1

\* C23: with an adapter that has no pool, every host call whose arguments let it reach
\* the adapter operation gets the not-configured error without a connection being
\* attempted, and returns the function's backend-error code (pg_exec returns -1)
\* to the guest, which runs on; a call that stops at its arguments attempts none either.
C23_DisabledAdapterDoesNoIo ==
    (hcall # NoCall /\ hcall.backend.kind = "disabled")
    => /\ ~hio
       /\ ~hout.trap
       /\ hout.written = {}
       /\ hout.called => hout.ret = BackendErrorCode(hcall.fn)
       /\ hcall.fn = "pg_exec" /\ TextOk(hcall) => hout.ret = -1 /\ hout.called

\* pg_exec with readable SQL against the adapter without a pool has returned -1
C23_Witness ==
    /\ hcall.fn = "pg_exec" /\ hcall.backend.kind = "disabled"
    /\ TextOk(hcall) /\ hcall.len > 0
    /\ hout.called /\ ~hio
    /\ hout.ret = -1

\* the guest of the round trip wrote a UTF-8 key and a value that fits the buffer,
\* and the backend answered every command so far
FitsRoundTrip == Utf8(kin.key) /\ Len(kin.val) <= kin.outLen /\ ~kfail

\* C24: against a backend that answers, for a UTF-8 key k and a value v no longer
\* than out_len: set(k, v) succeeds, get(k, buf) returns |v| and leaves v in the
\* first |v| bytes of buf; after del(k), get(k, buf) returns -1 and the host-side
\* exists(k) answers false.
C24_RoundTrip ==
    FitsRoundTrip =>
        /\ Len(krets) >= 1 => krets[1] = 0
        /\ Len(krets) >= 2 => krets[2] = Len(kin.val)
        /\ Len(krets) = 2 => ReadBytes(gmem, BufPtr, krets[2]) = kin.val
        /\ Len(krets) >= 3 => krets[3] >= 0
        /\ Len(krets) >= 4 => krets[4] = -1
        /\ Len(krets) >= 5 => krets[5] = 0
C24_Witness ==
    /\ FitsRoundTrip
    /\ Len(krets) = 5
    /\ Len(kin.val) = MaxValLen
    /\ kin.val # <<98>>
    /\ krets[2] = MaxValLen

\* the JSON text pg_query left for the guest: the ret bytes at out_ptr
WrittenText == ReadBytes(qmem, qcall.out_ptr, qcall.ret)
Succeeded == qcall.done /\ qcall.ret >= 0

\* what the driver answered to the guest's SELECT: the rows of the table, and the
\* names of the columns in the order of the select list
ColumnNames(sel) == [j \in 1..Len(sel) |-> sel[j].name]
Keys(obj) == [j \in 1..Len(obj) |-> obj[j].k]

\* C25: for every row query_json returns, the keys of the row's JSON object come in
\* the order in which the driver reports the columns.
C25_KeysInDriverOrder ==
    Succeeded =>
        \A i \in 1..Len(qtable) :
            Keys(query_json(qtable, qcall.sel)[i]) = ColumnNames(qcall.sel)

\* the parsed element maps every selected name to the value the row has in a
\* column selected under that name
MapsRow(obj, row, sel) ==
    \A j \in 1..Len(sel) :
        \E h \in 1..Len(sel) :
            /\ sel[h].name = sel[j].name
            /\ JsonGet(obj, sel[j].name, <<>>) = <<CellJson(row, sel[h].col)>>

\* C26: after a pg_query that returned n >= 0, the n bytes at out_ptr parse as a
\* JSON array with one element per row of the result, in the order of the rows,
\* and each element maps a selected column name to the row's value (a TEXT value
\* comes back as the string that was inserted).
C26_QueryWritesRows ==
    Succeeded =>
        LET p == from_slice(WrittenText)
        IN  /\ p.ok
            /\ Len(p.v) = Len(qtable)
            /\ \A i \in 1..Len(qtable) : MapsRow(p.v[i], qtable[i], qcall.sel)

\* C27: what run(name) returns depends only on the module instantiated and on
\* name: the guest ran in a store that carries this request's context (NAME = name,
\* the empty pipes of this run), and the output returned is what the module prints
\* under NAME = name, whatever ran in the store before.
C27_OutputDependsOnModuleAndName ==
    iolast.ok =>
        /\ iolast.ctx = RequestCtx(iolast.name, ioruns)
        /\ iolast.out = Standalone(iolast.mod, iolast.name)
C27_Witness ==
    /\ iolast.ok
    /\ ioruns = MaxRuns
    /\ iostore.count = MaxRuns
    /\ iolast.name = 2
    /\ iolast.out = Standalone(InitialModule, 2)

\* C28: every candidate list_wasm_candidates returned takes part in the selection,
\* one whose modification time cannot be read as if it were of the epoch: when the
\* listing succeeds and exactly one candidate compiles, load_best_module returns
\* that candidate's module.
C28_EveryCandidateTakesPart ==
    (loaded # NoLoad /\ dir.readable) =>
        \A i \in Candidates(dir) :
            (\A j \in Candidates(dir) : dir.entries[j].compiles <=> j = i)
                => loaded = [ok |-> TRUE, file |-> i]

\* the store the latest run gave back lies in the free list (no reload cleared it);
\* it is the one run() attached its context to, or one built in the retry branch
GaveBack == iostore # NoIoStore
StoreKept == iostore.fuel /\ iostore.ctx = RequestCtx(iolast.name, ioruns)
StoreReplaced == ~iostore.fuel /\ iostore.ctx = DefaultCtx

\* C29: when the first instantiation fails with the instance-count condition the
\* store is replaced by a fresh one, the count is reset to 0 and instantiate_async
\* is called a second and last time, whose failure of any kind is returned; when
\* the first instantiation fails otherwise, the error is returned after that one
\* call and the store, with its count, is kept.
C29_RetriesOnceOnInstanceCount ==
    /\ iolast.first = "count" =>
          /\ iolast.tries = 2
          /\ iolast.second # "ok" => ~iolast.ok
          /\ GaveBack => /\ StoreReplaced
                          /\ iostore.count = (IF iolast.second = "ok" THEN 1 ELSE 0)
    /\ iolast.first = "other" =>
          /\ iolast.tries = 1
          /\ ~iolast.ok
          /\ GaveBack => /\ StoreKept
                          /\ iostore.count = iolast.count0
C29_Witness ==
    /\ iolast.first = "count"
    /\ iolast.second = "other"
    /\ iolast.count0 = MaxRuns - 1
    /\ GaveBack
    /\ iostore.count = 0

\* update_module() is in progress for u, and its next step can be taken
UpdateCanProceed(u) ==
    /\ upc[u] = "write" => ENABLED WriteModule(u)
    /\ upc[u] = "inc" => ENABLED BumpGeneration(u)
    /\ upc[u] = "clear" => ENABLED ClearFree(u)

\* C30: update_module() never waits for a Lease in flight: whatever permits are
\* out and wherever the runs that hold them stand, each of its steps can be taken,
\* so it returns even when all permits are held by guests that never return.
\* It takes no permit and leaves every run where it stands, with its lease and
\* its result.
C30_UpdateNeverWaitsForLeases ==
    /\ [](\A u \in Updaters : UpdateCanProceed(u))
    /\ [][(\E u \in Updaters : UpdateStep(u)) => UNCHANGED <<taskVars, permits>>]_vars

\* both permits are out, held by guests of the first module that have not
\* returned, and an update_module call made meanwhile has returned
C30_Witness ==
    /\ permits = 0
    /\ \A t \in Tasks : pc[t] = "call" /\ permit[t] /\ lstore[t].mod = InitialModule
    /\ returnedPos > InitialModule
    /\ \A u \in Updaters : upc[u] = "idle"

\* the stores of the pool: those lying in the free list and those held by a Lease
StoresAlive == Len(free) + Cardinality({t \in Tasks : pc[t] \in StorePcs})

\* C31: in every reachable state the stores in the free list and the stores held
\* by live Leases are together at most max(max_concurrency, 1), the effective
\* max_concurrency; so the free list never holds more stores than that.
C31_StoresAtMostPermits ==
    /\ StoresAlive <= TotalPermits
    /\ Len(free) <= TotalPermits

\* the bound is met with a store on either side: one lies in the free list, one is
\* held by a run that is calling its guest, and a reload has cleared the list before
C31_Witness ==
    /\ max_concurrency = MaxK
    /\ StoresAlive = TotalPermits
    /\ Len(free) >= 1
    /\ \E t \in Tasks : pc[t] = "call"
    /\ generation > InitialGeneration

\* ---------------------------------------------------------------- C32
\* signals sent by the watcher that no reload attempt has followed yet
Uncovered == sent - seen
\* the reload task waits in recv with nothing queued and no update under way
ReloadQuiet == rpc = "recv" /\ signals = 0 /\ upc[ReloadTask] = "idle"

\* C32: no filesystem change is lost by the reload loop.  Every signal the watcher
\* sent and that no reload attempt has followed yet is still in the channel, or was
\* just taken by recv with the attempt of that round still to come, whenever it
\* arrived: during the debounce sleep, during load_best_module or during
\* update_module.  So when the reload task is back in recv with an empty channel,
\* the last attempt started after the last signal and read the directory as the
\* last event left it; and the attempt that follows the n-th signal does start.
C32_NoSignalLost ==
    /\ [](Uncovered = signals + (IF rpc = "sleep" THEN 1 ELSE 0))
    /\ []((ReloadQuiet /\ sent > 0) =>
             /\ Uncovered = 0
             /\ attempts >= 1
             /\ loaded = load_best_module(dir))
    /\ \A n \in 1..MaxEvents : (sent >= n) ~> (seen >= n)
\* a signal arrived after the drain of the first round, and a second attempt
\* followed it and read the directory the event left
C32_Witness ==
    /\ ReloadQuiet
    /\ sent >= 2
    /\ attempts >= 2
    /\ burst = 1
    /\ oks >= 1
    /\ seen = sent
    /\ loaded = load_best_module(dir)
    /\ dir # ServedDir

\* ---------------------------------------------------------------- C33
\* the places a store can be at
StoreIds == 1..(NumTasks + MaxK)
\* store s lies in the free list; with a tag older than the pool's generation
InFree(s) == \E i \in 1..Len(free) : free[i].store.id = s
StaleInFree(s) ==
    \E i \in 1..Len(free) : free[i].store.id = s /\ free[i].generation < generation
\* leases keep being acquired and dropped
LeasesKeepComing ==
    /\ []<>(\E t \in Tasks : pc[t] = "leased")
    /\ []<>(\E t \in Tasks : pc[t] = "done")

\* C33 as stated: provided leases keep being acquired and dropped, every store in
\* the free list whose generation tag is older than the current generation is
\* eventually removed from the free list.
C33_StaleStoreIsRemoved ==
    LeasesKeepComing => \A s \in StoreIds : StaleInFree(s) ~> ~InFree(s)

\* ---------------------------------------------------------------- C34
\* permits of the semaphore: those available and those callers hold
PermitsInAll == permits + Cardinality({t \in Tasks : permit[t]})

\* C34: a pool constructed with max_concurrency = 0 has one permit, so that a
\* lease() finds a permit whenever no caller holds one and at most one Lease is
\* live at a time; a pool constructed with max_concurrency >= 1 has max_concurrency
\* permits.
C34_ZeroIsOnePermit ==
    /\ max_concurrency = 0 =>
          /\ PermitsInAll = 1
          /\ Cardinality(LiveLeases) <= 1
          /\ (\A t \in Tasks : ~permit[t]) =>
                /\ permits = 1
                /\ \A t \in Tasks : pc[t] = "start" => ENABLED Acquire(t)
    /\ max_concurrency >= 1 => PermitsInAll = max_concurrency
\* configured with 0: one caller runs the guest under the one Lease and another
\* caller waits for the permit
C34_Witness ==
    /\ max_concurrency = 0
    /\ permits = 0
    /\ \E t \in Tasks : pc[t] = "call" /\ permit[t]
    /\ \E w \in Tasks : pc[w] = "start" /\ ~ENABLED Acquire(w)

====
